---------------------------- MODULE Spec2Model ----------------------------
(***************************************************************************)
(* Graph partitioning, partition books, feature-cache merge and the        *)
(* partition store of graphlearn_torch:                                    *)
(*   graphlearn_torch/python/partition/base.py                             *)
(*   graphlearn_torch/python/distributed/dist_dataset.py                   *)
(*                                                                         *)
(* Tensors are sequences of integers; a tensor index i of the program is   *)
(* position i+1 of the sequence.  A feature row is one opaque integer.     *)
(* An optional value is None (the empty tuple) or Some(v) (the 1-tuple).   *)
(***************************************************************************)
EXTENDS Integers, Sequences, FiniteSets, TLC

VARIABLES
  partitioner,  \* the PartitionerBase object: its fields
  hooks,        \* what the subclass's _partition_node and _cache_node return
  pc,           \* the position of the constructor or of partition()
  fs,           \* the files under the output directory: path -> content
  dirs,         \* the directories that exist under (and including) the output directory
  call,         \* the last call of a function under check: its name and arguments
  ret,          \* what that call returned or raised; for a load_partition
                \* call under way, the accesses left and what it has found
  dataset,      \* the DistDataset object: its fields
  heap          \* tensor objects that are passed by reference: reference -> content

vars == <<partitioner, hooks, pc, fs, dirs, call, ret, dataset, heap>>

---------------------------------------------------------------------------
(* Bounds of the model *)

\* the largest number of edges of an edge list
MaxEdges == 2
\* the number of nodes of each node type
NumNodes == 2
\* the largest num_parts of a valid partitioner
MaxParts == 2
\* the largest chunk_size
MaxChunk == 2
\* the number of global ids a feature partition book covers
NumIds == 3
\* the largest number of owned rows of a feature partition
MaxOwned == 2
\* the largest number of cache rows of a feature partition
MaxCache == 2

\* chunk_size: int = 10000
DefaultChunkSize == 10000

---------------------------------------------------------------------------
(* Values *)

None == <<>>
Some(v) == <<v>>
IsNone(o) == o = <<>>
Val(o) == o[1]

\* etype=None / ntype=None
NoEtype == <<>>
NoNtype == "None"

NodeTypes == <<"a", "b">>
EdgeTypeSet == {<<"a", "r", "b">>, <<"b", "s", "a">>}

Min(a, b) == IF a < b THEN a ELSE b

\* a value together with what isinstance tells about it
Dict(keys, d) == [kind |-> "dict", v |-> d, keys |-> keys]
Tensor(t) == [kind |-> "tensor", v |-> t]
PyInt(n) == [kind |-> "int", v |-> n]
List(t) == [kind |-> "list", v |-> t]
NoneArg == [kind |-> "none", v |-> <<>>]

\* utils.convert_to_tensor(data): a list becomes a tensor, a dict is converted
\* value by value, a tensor and None stay
ConvertToTensor(x) == IF x.kind = "list" THEN Tensor(x.v) ELSE x
IsDict(x) == x.kind = "dict"

\* all sequences over S of length at most n
SeqsUpTo(S, n) == UNION {[1..k -> S] : k \in 0..n}

---------------------------------------------------------------------------
(* torch primitives used by the partitioner *)

\* torch.arange(n)
Arange(n) == [k \in 1..n |-> k - 1]

\* t[s:e]
Slice(t, s, e) == SubSeq(t, s + 1, e)

\* t[idx] for an index tensor idx
Index(t, idx) == [k \in 1..Len(idx) |-> t[idx[k] + 1]]

\* torch.masked_select(t, mask): the elements of t where mask holds, in order
RECURSIVE MaskedSelect(_, _)
MaskedSelect(t, mask) ==
  IF Len(t) = 0 THEN <<>>
  ELSE IF Head(mask)
       THEN <<Head(t)>> \o MaskedSelect(Tail(t), Tail(mask))
       ELSE MaskedSelect(Tail(t), Tail(mask))

\* torch.cat(list) of a non-empty list of 1-d tensors
RECURSIVE TorchCat(_)
TorchCat(list) ==
  IF Len(list) = 0 THEN <<>> ELSE Head(list) \o TorchCat(Tail(list))

\* t after  t[idx] = v  (scalar v written at every position of idx)
IndexPut(t, idx, v) ==
  [k \in 1..Len(t) |-> IF \E j \in 1..Len(idx) : idx[j] + 1 = k THEN v ELSE t[k]]

\* t after  t[idx] = src  (src[j] written at position idx[j], later writes win)
RECURSIVE IndexPutSeq(_, _, _)
IndexPutSeq(t, idx, src) ==
  IF Len(idx) = 0 THEN t
  ELSE IndexPutSeq([t EXCEPT ![Head(idx) + 1] = Head(src)], Tail(idx), Tail(src))

\* torch.zeros(n)
Zeros(n) == [k \in 1..n |-> 0]

GraphPartitionData(rows, cols, eids) ==
  [rows |-> rows, cols |-> cols, eids |-> eids]

---------------------------------------------------------------------------
(* PartitionerBase._partition_graph *)

\* get_edge_index: the asserting lookup of the edge list of an edge type
GetEdgeIndexFails(self, etype) ==
  self.data_cls = "hetero" /\ etype = NoEtype

GetEdgeIndex(self, etype) ==
  IF self.data_cls = "hetero" THEN self.edge_index.v[etype] ELSE self.edge_index.v

\* the book consulted for the designated endpoint
TargetNodePbSwapped(self, node_pb, etype) ==
  IF self.data_cls = "hetero"
  THEN IF self.edge_assign_strategy = "by_src"
       THEN node_pb[etype[3]]
       ELSE node_pb[etype[1]]
  ELSE node_pb

TargetNodePb(self, node_pb, etype) ==
  IF self.data_cls = "hetero"
  THEN IF self.edge_assign_strategy = "by_src"
       THEN node_pb[etype[1]]
       ELSE node_pb[etype[3]]
  ELSE node_pb

\* the designated endpoints
TargetIndicesSwapped(self, rows, cols) ==
  IF self.edge_assign_strategy = "by_src" THEN cols ELSE rows

TargetIndices(self, rows, cols) ==
  IF self.edge_assign_strategy = "by_src" THEN rows ELSE cols

\* chunk_num = (edge_num + chunk_size - 1) // chunk_size
ChunkNumFloor(edge_num, chunk_size) == edge_num \div chunk_size

ChunkNum(edge_num, chunk_size) == (edge_num + chunk_size - 1) \div chunk_size

\* the body of `for pidx in range(num_parts)` inside the chunk loop: what is
\* appended to res[pidx] for one chunk
ChunkSelectComplement(chunk_rows, chunk_cols, chunk_eids, chunk_partition_idx, pidx) ==
  LET chunk_idx == Arange(Len(chunk_rows))
      mask == [k \in 1..Len(chunk_rows) |-> chunk_partition_idx[k] # pidx]
      idx == MaskedSelect(chunk_idx, mask)
  IN GraphPartitionData(Index(chunk_rows, idx), Index(chunk_cols, idx),
                        Index(chunk_eids, idx))

ChunkSelect(chunk_rows, chunk_cols, chunk_eids, chunk_partition_idx, pidx) ==
  LET chunk_idx == Arange(Len(chunk_rows))
      mask == [k \in 1..Len(chunk_rows) |-> chunk_partition_idx[k] = pidx]
      idx == MaskedSelect(chunk_idx, mask)
  IN GraphPartitionData(Index(chunk_rows, idx), Index(chunk_cols, idx),
                        Index(chunk_eids, idx))

\* the chunk loop: res[pidx] is the list of per-chunk selections of shard pidx
RECURSIVE ChunkLoop(_, _, _, _, _, _, _, _)
ChunkLoop(n, chunk_start_pos, res, rows, cols, target_indices, target_node_pb, self) ==
  IF n = 0 THEN res
  ELSE LET edge_num == Len(rows)
           eids == Arange(edge_num)
           chunk_end_pos == Min(edge_num, chunk_start_pos + self.chunk_size)
           current_chunk_size == chunk_end_pos - chunk_start_pos
           chunk_rows == Slice(rows, chunk_start_pos, chunk_end_pos)
           chunk_cols == Slice(cols, chunk_start_pos, chunk_end_pos)
           chunk_eids == Slice(eids, chunk_start_pos, chunk_end_pos)
           chunk_target_indices == Slice(target_indices, chunk_start_pos, chunk_end_pos)
           chunk_partition_idx == Index(target_node_pb, chunk_target_indices)
           res2 == [p \in 1..self.num_parts |->
                     Append(res[p], ChunkSelect(chunk_rows, chunk_cols, chunk_eids,
                                                chunk_partition_idx, p - 1))]
       IN ChunkLoop(n - 1, chunk_start_pos + current_chunk_size, res2,
                    rows, cols, target_indices, target_node_pb, self)

\* the concatenation of shard pidx's per-chunk selections
ConcatChunksReversed(res_pidx) ==
  LET rev == [k \in 1..Len(res_pidx) |-> res_pidx[Len(res_pidx) + 1 - k]]
  IN GraphPartitionData(TorchCat([k \in 1..Len(rev) |-> rev[k].rows]),
                        TorchCat([k \in 1..Len(rev) |-> rev[k].cols]),
                        TorchCat([k \in 1..Len(rev) |-> rev[k].eids]))

ConcatChunks(res_pidx) ==
  GraphPartitionData(TorchCat([k \in 1..Len(res_pidx) |-> res_pidx[k].rows]),
                     TorchCat([k \in 1..Len(res_pidx) |-> res_pidx[k].cols]),
                     TorchCat([k \in 1..Len(res_pidx) |-> res_pidx[k].eids]))

\* the scatter loop  partition_book[p_eids] = pidx  over pidx = 0..n-1
ScatterBookUnwritten(partition_book, partition_results, n) == partition_book

RECURSIVE ScatterBook(_, _, _)
ScatterBook(partition_book, partition_results, n) ==
  IF n = 0 THEN partition_book
  ELSE IndexPut(ScatterBook(partition_book, partition_results, n - 1),
                partition_results[n].eids, n - 1)

PartitionGraph(self, node_pb, etype) ==
  IF GetEdgeIndexFails(self, etype)
  THEN [status |-> "AssertionError"]
  ELSE
    LET edge_index == GetEdgeIndex(self, etype)
        rows == edge_index[1]
        cols == edge_index[2]
        edge_num == Len(rows)
        target_node_pb == TargetNodePb(self, node_pb, etype)
        target_indices == TargetIndices(self, rows, cols)
        chunk_num == ChunkNum(edge_num, self.chunk_size)
        res == ChunkLoop(chunk_num, 0, [p \in 1..self.num_parts |-> <<>>],
                         rows, cols, target_indices, target_node_pb, self)
    IN IF chunk_num = 0
       THEN \* torch.cat of an empty list of tensors raises
            [status |-> "RuntimeError"]
       ELSE LET partition_results == [p \in 1..self.num_parts |-> ConcatChunks(res[p])]
            IN [status |-> "ok",
                partition_results |-> partition_results,
                partition_book |-> ScatterBook(Zeros(edge_num), partition_results,
                                               self.num_parts)]


---------------------------------------------------------------------------
(* cat_feature_cache *)

\* the feature row of global id `id` in the feature tensor named `tag`
Row(tag, id) == <<tag, id>>

\* feat[ids] for the feature tensor named `tag`
Rows(tag, ids) == [j \in 1..Len(ids) |-> Row(tag, ids[j])]

FeaturePartitionData(feats, ids, cache_feats, cache_ids) ==
  [feats |-> feats, ids |-> ids, cache_feats |-> cache_feats, cache_ids |-> cache_ids]

\* torch.max(t).item() of a non-empty tensor
TorchMax(t) == CHOOSE m \in {t[k] : k \in 1..Len(t)} : \A k \in 1..Len(t) : t[k] <= m

\* utils.id2idx(ids): the map built directly from the ids, of length
\* max(ids)+1 and sending the j-th id to j; over no ids it has no entry
Id2Idx(ids) ==
  IF Len(ids) = 0 THEN <<>>
  ELSE IndexPutSeq(Zeros(TorchMax(ids) + 1), ids, Arange(Len(ids)))

\* new_feats = torch.cat([cache_feats, feats])
CatFeatsOwnedFirst(cache_feats, feats) == feats \o cache_feats

CatFeats(cache_feats, feats) == cache_feats \o feats

\* nid2idx: owned ids written first (shifted by the cache size), cache ids second
NewId2IdxUnshifted(ids, cache_ids) ==
  LET max_id == IF TorchMax(cache_ids) > TorchMax(ids)
                THEN TorchMax(cache_ids) ELSE TorchMax(ids)
      owned == IndexPutSeq(Zeros(max_id + 1), ids, Arange(Len(ids)))
  IN IndexPutSeq(owned, cache_ids, Arange(Len(cache_ids)))

NewId2Idx(ids, cache_ids) ==
  LET max_id == IF TorchMax(cache_ids) > TorchMax(ids)
                THEN TorchMax(cache_ids) ELSE TorchMax(ids)
      owned == IndexPutSeq(Zeros(max_id + 1), ids,
                           [j \in 1..Len(ids) |-> (j - 1) + Len(cache_ids)])
  IN IndexPutSeq(owned, cache_ids, Arange(Len(cache_ids)))

\* new_feat_pb = feat_pb.clone(); new_feat_pb[cache_ids] = partition_idx
\* h is the store of tensor objects, feat_pb the reference of the input book,
\* new_ref the reference of the tensor the clone allocates.
\* The result is the returned reference and the store afterwards.
PatchBookInPlace(h, feat_pb, new_ref, cache_ids, partition_idx) ==
  [ref |-> feat_pb,
   heap |-> [h EXCEPT ![feat_pb] = IndexPut(h[feat_pb], cache_ids, partition_idx)]]

PatchBook(h, feat_pb, new_ref, cache_ids, partition_idx) ==
  [ref |-> new_ref,
   heap |-> [r \in (DOMAIN h) \cup {new_ref} |->
               IF r = new_ref THEN IndexPut(h[feat_pb], cache_ids, partition_idx)
               ELSE h[r]]]

\* the branch taken when the partition has no cache
NoCacheResultCloned(h, feat_pdata, feat_pb, new_ref) ==
  [status |-> "ok", cache_ratio |-> <<0, 1>>, feats |-> feat_pdata.feats,
   id2idx |-> Id2Idx(feat_pdata.ids), feat_pb |-> new_ref,
   heap |-> [r \in (DOMAIN h) \cup {new_ref} |->
               IF r = new_ref THEN h[feat_pb] ELSE h[r]]]

NoCacheResult(h, feat_pdata, feat_pb, new_ref) ==
  [status |-> "ok", cache_ratio |-> <<0, 1>>, feats |-> feat_pdata.feats,
   id2idx |-> Id2Idx(feat_pdata.ids), feat_pb |-> feat_pb, heap |-> h]

\* cat_feature_cache(partition_idx, feat_pdata, feat_pb); the cache ratio is
\* the pair <<numerator, denominator>>
CatFeatureCache(h, partition_idx, feat_pdata, feat_pb, new_ref) ==
  LET feats == feat_pdata.feats
      ids == feat_pdata.ids
  IN IF IsNone(feat_pdata.cache_feats) \/ IsNone(feat_pdata.cache_ids)
     THEN NoCacheResult(h, feat_pdata, feat_pb, new_ref)
     ELSE LET cache_feats == Val(feat_pdata.cache_feats)
              cache_ids == Val(feat_pdata.cache_ids)
          IN IF Len(cache_ids) + Len(ids) = 0
             THEN [status |-> "ZeroDivisionError", heap |-> h]
             ELSE IF Len(cache_ids) = 0 \/ Len(ids) = 0
             THEN \* torch.max of an empty tensor raises
                  [status |-> "RuntimeError", heap |-> h]
             ELSE LET patched == PatchBook(h, feat_pb, new_ref, cache_ids, partition_idx)
                  IN [status |-> "ok",
                      cache_ratio |-> <<Len(cache_ids), Len(cache_ids) + Len(ids)>>,
                      feats |-> CatFeats(cache_feats, feats),
                      id2idx |-> NewId2Idx(ids, cache_ids),
                      feat_pb |-> patched.ref,
                      heap |-> patched.heap]

\* the fields of a constructed partitioner (PartitionerBase.__init__)
Partitioner(num_parts, num_nodes, edge_index, node_feat, edge_feat, strategy, chunk_size) ==
  [num_parts |-> num_parts,
   num_nodes |-> num_nodes,
   edge_index |-> edge_index,
   node_feat |-> node_feat,
   edge_feat |-> edge_feat,
   data_cls |-> IF IsDict(num_nodes) THEN "hetero" ELSE "homo",
   node_types |-> IF IsDict(num_nodes) THEN Some(num_nodes.keys) ELSE None,
   edge_types |-> IF IsDict(num_nodes) THEN Some(edge_index.keys) ELSE None,
   edge_assign_strategy |-> strategy,
   chunk_size |-> chunk_size]

---------------------------------------------------------------------------
(* The output directory *)

\* A directory is <<part, group, type>>, a file <<part, group, type, name>>:
\* part is the shard of part<k>, or RootPart for the output directory
\* itself; group is "graph", "node_feat", "edge_feat", "node_pb", "edge_pb"
\* or "" ; type is as_str(type) or "".
RootPart == 0 - 1
RootDir == <<RootPart, "", "">>

\* utils.ensure_dir(d): d and its missing ancestors exist afterwards
EnsureDir(ds, d) ==
  ds \cup {RootDir, d}
     \cup (IF d[2] # "" THEN {<<d[1], "", "">>, <<d[1], d[2], "">>} ELSE {})
     \cup (IF d[1] # RootPart THEN {<<d[1], "", "">>} ELSE {})

---------------------------------------------------------------------------
(* PartitionerBase.__init__ *)

\* the input graphs: edge i goes from node i to node i+1 (mod the node count)
RingEdges(m) ==
  <<[i \in 1..m |-> (i - 1) % NumNodes], [i \in 1..m |-> i % NumNodes]>>

\* a feature tensor: row i is the feature row of global id i
FeatTensor(tag, n) == [i \in 1..n |-> Row(tag, i - 1)]

EdgeTypes == <<<<"a", "r", "b">>, <<"b", "s", "a">>>>

\* self.output_dir = output_dir; ensure_dir(self.output_dir)
CtorEnsureDir ==
  /\ call.fn = "__init__"
  /\ pc = [at |-> 0, status |-> "running"]
  /\ dirs' = EnsureDir(dirs, RootDir)
  /\ pc' = [pc EXCEPT !.at = 1]
  /\ UNCHANGED <<partitioner, hooks, fs, call, ret, dataset, heap>>

\* self.num_parts = num_parts; assert self.num_parts > 1
CtorCheckNumParts ==
  /\ call.fn = "__init__"
  /\ pc = [at |-> 1, status |-> "running"]
  /\ IF call.num_parts > 1
     THEN pc' = [pc EXCEPT !.at = 2] /\ UNCHANGED ret
     ELSE /\ pc' = [pc EXCEPT !.status = "raised"]
          /\ ret' = [status |-> "AssertionError"]
  /\ UNCHANGED <<partitioner, hooks, fs, dirs, call, dataset, heap>>

\* the isinstance checks of the per-type branch, and len(self.edge_index[0])
\* of the other branch, which finds no key 0 in a dict of edge types
CtorShapeError(c) ==
  LET edge_index == ConvertToTensor(c.edge_index)
      node_feat == ConvertToTensor(c.node_feat)
      edge_feat == ConvertToTensor(c.edge_feat)
  IN IF IsDict(c.num_nodes)
     THEN IF /\ IsDict(edge_index)
             /\ (IsDict(node_feat) \/ node_feat.kind = "none")
             /\ (IsDict(edge_feat) \/ edge_feat.kind = "none")
          THEN "ok" ELSE "AssertionError"
     ELSE IF IsDict(edge_index) THEN "KeyError" ELSE "ok"

CtorCheckShapes ==
  /\ call.fn = "__init__"
  /\ pc = [at |-> 2, status |-> "running"]
  /\ IF CtorShapeError(call) = "ok"
     THEN pc' = [pc EXCEPT !.at = 3] /\ UNCHANGED ret
     ELSE /\ pc' = [pc EXCEPT !.status = "raised"]
          /\ ret' = [status |-> CtorShapeError(call)]
  /\ UNCHANGED <<partitioner, hooks, fs, dirs, call, dataset, heap>>

\* str.lower() on the strategy names the model draws
Lower(str) ==
  CASE str = "BY_SRC" -> "by_src"
    [] str = "By_Dst" -> "by_dst"
    [] OTHER -> str

\* self.edge_assign_strategy = edge_assign_strategy.lower();
\* assert self.edge_assign_strategy in ['by_src', 'by_dst']; the object exists
CtorCheckStrategy ==
  /\ call.fn = "__init__"
  /\ pc = [at |-> 3, status |-> "running"]
  /\ IF Lower(call.edge_assign_strategy) \in {"by_src", "by_dst"}
     THEN /\ pc' = [at |-> 4, status |-> "returned"]
          /\ ret' = [status |-> "ok"]
          /\ partitioner' = Partitioner(call.num_parts, call.num_nodes,
                                        ConvertToTensor(call.edge_index),
                                        ConvertToTensor(call.node_feat),
                                        ConvertToTensor(call.edge_feat),
                                        Lower(call.edge_assign_strategy), call.chunk_size)
     ELSE /\ pc' = [pc EXCEPT !.status = "raised"]
          /\ ret' = [status |-> "AssertionError"]
          /\ UNCHANGED partitioner
  /\ UNCHANGED <<hooks, fs, dirs, call, dataset, heap>>

---------------------------------------------------------------------------
(* The save functions.  A store st is [fs, dirs]. *)

\* as_str(type): a node type is its own name, an edge type joins its three
\* names; no type gives no subdirectory
NodeTypeStr(ntype) == IF ntype = NoNtype THEN "" ELSE ntype

EdgeTypeStr(etype) ==
  CASE etype = <<"a", "r", "b">> -> "a__r__b"
    [] etype = <<"b", "s", "a">> -> "b__s__a"
    [] OTHER -> ""

\* The save functions act on the store one file operation at a time.  A file
\* operation names the save function it belongs to (op) and what it does
\* (step): ensure_dir, torch.save, open(.., 'wb') or pickle.dump.
EnsureDirOp(kind, dir) == [op |-> kind, step |-> "ensure_dir", dir |-> dir]

TorchSaveOp(kind, path, content) ==
  [op |-> kind, step |-> "torch_save", path |-> path, content |-> content]

\* what a file opened for writing holds before anything is written to it
Truncated == [truncated |-> TRUE]

IsTruncated(content) == "truncated" \in DOMAIN content

\* a variant that opens an existing book file for appending
WriteAppendingBooks(files, path, content) ==
  [q \in (DOMAIN files) \cup {path} |->
     IF q = path
     THEN IF (path[2] \in {"node_pb", "edge_pb"} \/ path[4] \in {"node_pb", "edge_pb"})
             /\ path \in DOMAIN files
          THEN files[path] \o content
          ELSE content
     ELSE files[q]]

\* torch.save(content, path) / pickle.dump: the file holds content
Write(files, path, content) == (path :> content) @@ files

\* save_meta: META is opened for writing, which creates or empties it, then
\* the meta dict is dumped into it
SaveMeta(num_parts, data_cls, node_types, edge_types) ==
  <<[op |-> "save_meta", step |-> "open", path |-> <<RootPart, "", "", "META">>],
    [op |-> "save_meta", step |-> "pickle_dump", path |-> <<RootPart, "", "", "META">>,
     content |-> [num_parts |-> num_parts, data_cls |-> data_cls,
                  node_types |-> node_types, edge_types |-> edge_types]]>>

\* save_node_pb / save_edge_pb: group is "node_pb" or "edge_pb", kind the
\* name of the function, tstr the as_str of the type ("" when there is none)
SavePb(kind, group, pb, tstr) ==
  IF tstr # ""
  THEN <<EnsureDirOp(kind, <<RootPart, group, "">>),
         TorchSaveOp(kind, <<RootPart, group, "", tstr>>, pb)>>
  ELSE <<TorchSaveOp(kind, <<RootPart, "", "", group>>, pb)>>

SaveGraphPartitionSwapped(partition_idx, graph_partition, tstr) ==
  <<EnsureDirOp("save_graph_partition", <<partition_idx, "graph", tstr>>),
    TorchSaveOp("save_graph_partition",
                <<partition_idx, "graph", tstr, "rows.pt">>, graph_partition.cols),
    TorchSaveOp("save_graph_partition",
                <<partition_idx, "graph", tstr, "cols.pt">>, graph_partition.rows),
    TorchSaveOp("save_graph_partition",
                <<partition_idx, "graph", tstr, "eids.pt">>, graph_partition.eids)>>

SaveGraphPartition(partition_idx, graph_partition, tstr) ==
  <<EnsureDirOp("save_graph_partition", <<partition_idx, "graph", tstr>>),
    TorchSaveOp("save_graph_partition",
                <<partition_idx, "graph", tstr, "rows.pt">>, graph_partition.rows),
    TorchSaveOp("save_graph_partition",
                <<partition_idx, "graph", tstr, "cols.pt">>, graph_partition.cols),
    TorchSaveOp("save_graph_partition",
                <<partition_idx, "graph", tstr, "eids.pt">>, graph_partition.eids)>>

SaveFeaturePartition(partition_idx, feature_partition, group, tstr) ==
  <<EnsureDirOp("save_feature_partition", <<partition_idx, group, tstr>>),
    TorchSaveOp("save_feature_partition",
                <<partition_idx, group, tstr, "feats.pt">>, feature_partition.feats),
    TorchSaveOp("save_feature_partition",
                <<partition_idx, group, tstr, "ids.pt">>, feature_partition.ids)>>
  \o (IF IsNone(feature_partition.cache_feats) THEN <<>>
      ELSE <<TorchSaveOp("save_feature_partition",
                         <<partition_idx, group, tstr, "cache_feats.pt">>,
                         Val(feature_partition.cache_feats)),
             TorchSaveOp("save_feature_partition",
                         <<partition_idx, group, tstr, "cache_ids.pt">>,
                         feature_partition.cache_ids)>>)

\* the store after one file operation
Applied(st, fop) ==
  CASE fop.step = "ensure_dir" -> [fs |-> st.fs, dirs |-> EnsureDir(st.dirs, fop.dir)]
    [] fop.step = "torch_save" ->
         [fs |-> Write(st.fs, fop.path, fop.content), dirs |-> st.dirs]
    [] fop.step = "open" -> [fs |-> Write(st.fs, fop.path, Truncated), dirs |-> st.dirs]
    [] fop.step = "pickle_dump" ->
         [fs |-> Write(st.fs, fop.path, fop.content), dirs |-> st.dirs]

---------------------------------------------------------------------------
(* PartitionerBase._partition_node_feat, _partition_edge_feat, partition *)

\* get_node_feat / get_edge_feat: feat is self.node_feat or self.edge_feat,
\* key the type (NoNtype or NoEtype when omitted)
GetFeat(self, feat, key, omitted) ==
  IF feat.kind = "none" THEN [status |-> "ok", v |-> None]
  ELSE IF self.data_cls = "hetero"
       THEN IF omitted THEN [status |-> "AssertionError"]
            ELSE IF key \notin DOMAIN feat.v THEN [status |-> "KeyError"]
            ELSE [status |-> "ok", v |-> Some(feat.v[key])]
       ELSE [status |-> "ok", v |-> Some(feat.v)]

\* _partition_node_feat(node_ids_list, ntype): per shard None or the partition
PartitionNodeFeat(self, hk, node_ids_list, ntype) ==
  LET node_feat == GetFeat(self, self.node_feat, ntype, ntype = NoNtype)
  IN IF node_feat.status # "ok" THEN node_feat
     ELSE IF IsNone(node_feat.v)
     THEN [status |-> "ok", v |-> [p \in 1..self.num_parts |-> None]]
     ELSE LET cache_node_ids_list == hk.cache[ntype]
          IN [status |-> "ok",
              v |-> [p \in 1..self.num_parts |->
                      LET n_ids == node_ids_list[p]
                          cache_n_ids == cache_node_ids_list[p]
                      IN Some(FeaturePartitionData(
                           Index(Val(node_feat.v), n_ids), n_ids,
                           IF IsNone(cache_n_ids) THEN None
                           ELSE Some(Index(Val(node_feat.v), Val(cache_n_ids))),
                           cache_n_ids))]]

\* _partition_edge_feat(graph_list, etype)
PartitionEdgeFeat(self, graph_list, etype) ==
  LET edge_feat == GetFeat(self, self.edge_feat, etype, etype = NoEtype)
  IN IF edge_feat.status # "ok" THEN edge_feat
     ELSE IF IsNone(edge_feat.v)
     THEN [status |-> "ok", v |-> [p \in 1..self.num_parts |-> None]]
     ELSE [status |-> "ok",
           v |-> [p \in 1..self.num_parts |->
                   Some(FeaturePartitionData(
                          Index(Val(edge_feat.v), graph_list[p].eids),
                          graph_list[p].eids, None, None))]]

\* the save_feature_partition calls of  for pidx in range(num_parts)
RECURSIVE FeatSaves(_, _, _, _)
FeatSaves(feat_list, group, tstr, pidx) ==
  IF pidx > Len(feat_list) THEN <<>>
  ELSE (IF IsNone(feat_list[pidx]) THEN <<>>
        ELSE SaveFeaturePartition(pidx - 1, Val(feat_list[pidx]), group, tstr))
       \o FeatSaves(feat_list, group, tstr, pidx + 1)

\* the calls of the loop over shards of one edge type: the graph partition,
\* then the edge feature partition when there is one
RECURSIVE GraphSaves(_, _, _, _)
GraphSaves(graph_list, edge_feat_list, tstr, pidx) ==
  IF pidx > Len(graph_list) THEN <<>>
  ELSE SaveGraphPartition(pidx - 1, graph_list[pidx], tstr)
       \o (IF IsNone(edge_feat_list[pidx]) THEN <<>>
           ELSE SaveFeaturePartition(pidx - 1, Val(edge_feat_list[pidx]),
                                     "edge_feat", tstr))
       \o GraphSaves(graph_list, edge_feat_list, tstr, pidx + 1)

Raise(error) == <<[op |-> "raise", step |-> "raise", error |-> error]>>

\* what partition() does for one node type (NoNtype: the homogeneous graph)
NodeTypeOps(self, hk, ntype) ==
  LET node_ids_list == hk.node[ntype].node_ids_list
      node_pb == hk.node[ntype].node_pb
      node_feat_list == PartitionNodeFeat(self, hk, node_ids_list, ntype)
  IN IF node_feat_list.status # "ok" THEN Raise(node_feat_list.status)
     ELSE FeatSaves(node_feat_list.v, "node_feat", NodeTypeStr(ntype), 1)
          \o SavePb("save_node_pb", "node_pb", node_pb, NodeTypeStr(ntype))

\* the node partition books partition() hands to _partition_graph
NodePbArg(self, hk) ==
  IF self.data_cls = "hetero"
  THEN [t \in {Val(self.node_types)[i] : i \in 1..Len(Val(self.node_types))} |->
          hk.node[t].node_pb]
  ELSE hk.node[NoNtype].node_pb

\* what partition() does for one edge type (NoEtype: the homogeneous graph)
EdgeTypeOps(self, hk, etype) ==
  LET g == PartitionGraph(self, NodePbArg(self, hk), etype)
  IN IF g.status # "ok" THEN Raise(g.status)
     ELSE LET edge_feat_list == PartitionEdgeFeat(self, g.partition_results, etype)
          IN IF edge_feat_list.status # "ok" THEN Raise(edge_feat_list.status)
             ELSE GraphSaves(g.partition_results, edge_feat_list.v, EdgeTypeStr(etype), 1)
                  \o SavePb("save_edge_pb", "edge_pb", g.partition_book,
                            EdgeTypeStr(etype))

RECURSIVE NodeTypesOps(_, _, _)
NodeTypesOps(self, hk, i) ==
  IF i > Len(Val(self.node_types)) THEN <<>>
  ELSE NodeTypeOps(self, hk, Val(self.node_types)[i]) \o NodeTypesOps(self, hk, i + 1)

RECURSIVE EdgeTypesOps(_, _, _)
EdgeTypesOps(self, hk, i) ==
  IF i > Len(Val(self.edge_types)) THEN <<>>
  ELSE EdgeTypeOps(self, hk, Val(self.edge_types)[i]) \o EdgeTypesOps(self, hk, i + 1)

\* the save_meta call that ends partition()
MetaOp(self) ==
  SaveMeta(self.num_parts, self.data_cls, self.node_types, self.edge_types)

\* the file operations of partition() in program order, those of save_meta
\* the last
PartitionOpsMetaFirst(self, hk) ==
  MetaOp(self)
  \o (IF self.data_cls = "hetero"
      THEN NodeTypesOps(self, hk, 1) \o EdgeTypesOps(self, hk, 1)
      ELSE NodeTypeOps(self, hk, NoNtype) \o EdgeTypeOps(self, hk, NoEtype))

PartitionOps(self, hk) ==
  (IF self.data_cls = "hetero"
   THEN NodeTypesOps(self, hk, 1) \o EdgeTypesOps(self, hk, 1)
   ELSE NodeTypeOps(self, hk, NoNtype) \o EdgeTypeOps(self, hk, NoEtype))
  \o MetaOp(self)

\* the operations that run: those up to and including the first that raises
RECURSIVE UntilRaise(_)
UntilRaise(ops) ==
  IF Len(ops) = 0 THEN <<>>
  ELSE IF Head(ops).op = "raise" THEN <<Head(ops)>>
  ELSE <<Head(ops)>> \o UntilRaise(Tail(ops))

PartitionPlan(self, hk) == UntilRaise(PartitionOps(self, hk))

---------------------------------------------------------------------------
(* load_partition *)

HasFile(st, f) == f \in DOMAIN st.fs

\* _load_graph_partition_data(graph_data_dir)
LoadGraphPartitionData(st, part, tstr) ==
  IF <<part, "graph", tstr>> \notin st.dirs THEN [status |-> "ok", v |-> None]
  ELSE IF \E name \in {"rows.pt", "cols.pt", "eids.pt"} :
            ~HasFile(st, <<part, "graph", tstr, name>>)
  THEN [status |-> "FileNotFoundError"]
  ELSE [status |-> "ok",
        v |-> Some(GraphPartitionData(st.fs[<<part, "graph", tstr, "rows.pt">>],
                                      st.fs[<<part, "graph", tstr, "cols.pt">>],
                                      st.fs[<<part, "graph", tstr, "eids.pt">>]))]

\* _load_feature_partition_data(feature_data_dir); cache_ids.pt holds the
\* optional cache_ids as it was saved
LoadFeaturePartitionDataOwnedOnly(st, part, group, tstr) ==
  IF <<part, group, tstr>> \notin st.dirs THEN [status |-> "ok", v |-> None]
  ELSE IF \E name \in {"feats.pt", "ids.pt"} : ~HasFile(st, <<part, group, tstr, name>>)
  THEN [status |-> "FileNotFoundError"]
  ELSE [status |-> "ok",
        v |-> Some(FeaturePartitionData(st.fs[<<part, group, tstr, "feats.pt">>],
                                        st.fs[<<part, group, tstr, "ids.pt">>],
                                        None, None))]

LoadFeaturePartitionData(st, part, group, tstr) ==
  IF <<part, group, tstr>> \notin st.dirs THEN [status |-> "ok", v |-> None]
  ELSE IF \E name \in {"feats.pt", "ids.pt"} : ~HasFile(st, <<part, group, tstr, name>>)
  THEN [status |-> "FileNotFoundError"]
  ELSE LET cached == /\ HasFile(st, <<part, group, tstr, "cache_feats.pt">>)
                     /\ HasFile(st, <<part, group, tstr, "cache_ids.pt">>)
       IN [status |-> "ok",
           v |-> Some(FeaturePartitionData(
                   st.fs[<<part, group, tstr, "feats.pt">>],
                   st.fs[<<part, group, tstr, "ids.pt">>],
                   IF cached THEN Some(st.fs[<<part, group, tstr, "cache_feats.pt">>])
                   ELSE None,
                   IF cached THEN st.fs[<<part, group, tstr, "cache_ids.pt">>]
                   ELSE None))]

SeqRange(q) == {q[i] : i \in 1..Len(q)}

\* the homogeneous branch of load_partition
LoadHomo(st, num_partitions, partition_idx) ==
  LET graph == LoadGraphPartitionData(st, partition_idx, "")
      node_feat == LoadFeaturePartitionData(st, partition_idx, "node_feat", "")
      edge_feat == LoadFeaturePartitionData(st, partition_idx, "edge_feat", "")
  IN IF \/ graph.status # "ok" \/ node_feat.status # "ok" \/ edge_feat.status # "ok"
        \/ ~HasFile(st, <<RootPart, "", "", "node_pb">>)
        \/ ~HasFile(st, <<RootPart, "", "", "edge_pb">>)
     THEN [status |-> "FileNotFoundError"]
     ELSE [status |-> "ok", num_partitions |-> num_partitions,
           partition_idx |-> partition_idx,
           graph |-> graph.v, node_feat |-> node_feat.v, edge_feat |-> edge_feat.v,
           node_pb |-> st.fs[<<RootPart, "", "", "node_pb">>],
           edge_pb |-> st.fs[<<RootPart, "", "", "edge_pb">>]]

\* a dict of the feature partitions found, None when there is none
FeatDictNeverNone(loaded) ==
  LET found == {t \in DOMAIN loaded : ~IsNone(loaded[t].v)}
  IN Some([t \in found |-> Val(loaded[t].v)])

FeatDict(loaded) ==
  LET found == {t \in DOMAIN loaded : ~IsNone(loaded[t].v)}
  IN IF found = {} THEN None ELSE Some([t \in found |-> Val(loaded[t].v)])

\* the heterogeneous branch of load_partition
LoadHetero(st, meta, partition_idx) ==
  LET etypes == SeqRange(Val(meta.edge_types))
      ntypes == SeqRange(Val(meta.node_types))
      graph == [et \in etypes |->
                  LoadGraphPartitionData(st, partition_idx, EdgeTypeStr(et))]
      node_feat == [nt \in ntypes |->
                  LoadFeaturePartitionData(st, partition_idx, "node_feat", NodeTypeStr(nt))]
      edge_feat == [et \in etypes |->
                  LoadFeaturePartitionData(st, partition_idx, "edge_feat", EdgeTypeStr(et))]
  IN IF \/ \E et \in etypes : graph[et].status # "ok" \/ edge_feat[et].status # "ok"
        \/ \E nt \in ntypes : node_feat[nt].status # "ok"
        \/ \E nt \in ntypes : ~HasFile(st, <<RootPart, "node_pb", "", NodeTypeStr(nt)>>)
        \/ \E et \in etypes : ~HasFile(st, <<RootPart, "edge_pb", "", EdgeTypeStr(et)>>)
     THEN [status |-> "FileNotFoundError"]
     ELSE [status |-> "ok", num_partitions |-> meta.num_parts,
           partition_idx |-> partition_idx,
           graph |-> [et \in etypes |-> graph[et].v],
           node_feat |-> FeatDict(node_feat),
           edge_feat |-> FeatDict(edge_feat),
           node_pb |-> [nt \in ntypes |-> st.fs[<<RootPart, "node_pb", "", NodeTypeStr(nt)>>]],
           edge_pb |-> [et \in etypes |-> st.fs[<<RootPart, "edge_pb", "", EdgeTypeStr(et)>>]]]

\* load_partition(root_dir, partition_idx) on a directory nothing writes to
\* while it runs
LoadPartition(st, partition_idx) ==
  IF ~HasFile(st, <<RootPart, "", "", "META">>) THEN [status |-> "FileNotFoundError"]
  ELSE IF IsTruncated(st.fs[<<RootPart, "", "", "META">>]) THEN [status |-> "EOFError"]
  ELSE LET meta == st.fs[<<RootPart, "", "", "META">>]
       IN IF partition_idx < 0 \/ partition_idx >= meta.num_parts
          THEN [status |-> "AssertionError"]
          ELSE IF <<partition_idx, "", "">> \notin st.dirs
          THEN [status |-> "AssertionError"]
          ELSE IF meta.data_cls = "homo"
          THEN LoadHomo(st, meta.num_parts, partition_idx)
          ELSE LoadHetero(st, meta, partition_idx)

RECURSIVE FlatMap(_, _)
FlatMap(F(_), q) == IF Len(q) = 0 THEN <<>> ELSE F(Head(q)) \o FlatMap(F, Tail(q))

\* load_partition reaches the directory one access at a time: k is
\* "assert_dir" (assert os.path.exists), "exists_dir" or "exists"
\* (os.path.exists of a directory or a file) or "load" (torch.load); unit is
\* the directory whose _load_*_data call makes the access, cache tells the
\* accesses to the cache files
Access(k, target, unit, cache) ==
  [k |-> k, target |-> target, unit |-> unit, cache |-> cache]

\* the accesses of _load_graph_partition_data, in program order
GraphAccesses(part, tstr) ==
  LET dir == <<part, "graph", tstr>>
  IN <<Access("exists_dir", dir, dir, FALSE),
       Access("load", <<part, "graph", tstr, "rows.pt">>, dir, FALSE),
       Access("load", <<part, "graph", tstr, "cols.pt">>, dir, FALSE),
       Access("load", <<part, "graph", tstr, "eids.pt">>, dir, FALSE)>>

\* the accesses of _load_feature_partition_data, in program order
FeatAccesses(part, group, tstr) ==
  LET dir == <<part, group, tstr>>
  IN <<Access("exists_dir", dir, dir, FALSE),
       Access("load", <<part, group, tstr, "feats.pt">>, dir, FALSE),
       Access("load", <<part, group, tstr, "ids.pt">>, dir, FALSE),
       Access("exists", <<part, group, tstr, "cache_feats.pt">>, dir, TRUE),
       Access("exists", <<part, group, tstr, "cache_ids.pt">>, dir, TRUE),
       Access("load", <<part, group, tstr, "cache_feats.pt">>, dir, TRUE),
       Access("load", <<part, group, tstr, "cache_ids.pt">>, dir, TRUE)>>

\* the accesses of load_partition after META, in program order
LoadAccesses(meta, part) ==
  <<Access("assert_dir", <<part, "", "">>, <<part, "", "">>, FALSE)>>
  \o (IF meta.data_cls = "homo"
      THEN GraphAccesses(part, "") \o FeatAccesses(part, "node_feat", "")
           \o FeatAccesses(part, "edge_feat", "")
           \o <<Access("load", <<RootPart, "", "", "node_pb">>, RootDir, FALSE),
                Access("load", <<RootPart, "", "", "edge_pb">>, RootDir, FALSE)>>
      ELSE LET etypes == Val(meta.edge_types)
               ntypes == Val(meta.node_types)
               G(et) == GraphAccesses(part, EdgeTypeStr(et))
               NF(nt) == FeatAccesses(part, "node_feat", NodeTypeStr(nt))
               EF(et) == FeatAccesses(part, "edge_feat", EdgeTypeStr(et))
               NP(nt) == <<Access("load", <<RootPart, "node_pb", "", NodeTypeStr(nt)>>,
                                  RootDir, FALSE)>>
               EP(et) == <<Access("load", <<RootPart, "edge_pb", "", EdgeTypeStr(et)>>,
                                  RootDir, FALSE)>>
           IN FlatMap(G, etypes) \o FlatMap(NF, ntypes) \o FlatMap(EF, etypes)
              \o FlatMap(NP, ntypes) \o FlatMap(EP, etypes))

\* A load_partition call in progress is [status |-> "running", todo, seen]:
\* the accesses it has yet to make and what it has found, the files it read
\* (seen.fs) and the directories it saw (seen.dirs).

\* a variant that reads the partition books before it checks partition_idx
LoadOpenedBooksFirst(st, partition_idx) ==
  IF ~HasFile(st, <<RootPart, "", "", "META">>)
  THEN [status |-> "FileNotFoundError", reads |-> {}]
  ELSE IF IsTruncated(st.fs[<<RootPart, "", "", "META">>])
  THEN [status |-> "EOFError", reads |-> {<<RootPart, "", "", "META">>}]
  ELSE LET meta == st.fs[<<RootPart, "", "", "META">>]
       IN IF partition_idx < 0 \/ partition_idx >= meta.num_parts
          THEN [status |-> "AssertionError",
                reads |-> {f \in DOMAIN st.fs : f[1] = RootPart}]
          ELSE [status |-> "running", todo |-> LoadAccesses(meta, partition_idx),
                seen |-> [fs |-> (<<RootPart, "", "", "META">> :> meta), dirs |-> {}]]

\* load_partition up to its first access after META: it opens and unpickles
\* META, then asserts on partition_idx
LoadOpened(st, partition_idx) ==
  IF ~HasFile(st, <<RootPart, "", "", "META">>)
  THEN [status |-> "FileNotFoundError", reads |-> {}]
  ELSE IF IsTruncated(st.fs[<<RootPart, "", "", "META">>])
  THEN [status |-> "EOFError", reads |-> {<<RootPart, "", "", "META">>}]
  ELSE LET meta == st.fs[<<RootPart, "", "", "META">>]
       IN IF partition_idx < 0 \/ partition_idx >= meta.num_parts
          THEN [status |-> "AssertionError", reads |-> {<<RootPart, "", "", "META">>}]
          ELSE [status |-> "running", todo |-> LoadAccesses(meta, partition_idx),
                seen |-> [fs |-> (<<RootPart, "", "", "META">> :> meta), dirs |-> {}]]

\* the accesses of q that are not of directory unit / not of its cache files
Skip(q, unit, cache_only) ==
  SelectSeq(q, LAMBDA x : ~(x.unit = unit /\ (cache_only => x.cache)))

\* the call r after its next access, made on the store st
LoadAccessed(st, r) ==
  LET a == Head(r.todo)
      rest == Tail(r.todo)
  IN CASE a.k = "assert_dir" ->
            IF a.target \in st.dirs
            THEN [r EXCEPT !.todo = rest, !.seen.dirs = @ \cup {a.target}]
            ELSE [status |-> "AssertionError", reads |-> DOMAIN r.seen.fs]
       [] a.k = "exists_dir" ->
            IF a.target \in st.dirs
            THEN [r EXCEPT !.todo = rest, !.seen.dirs = @ \cup {a.target}]
            ELSE [r EXCEPT !.todo = Skip(rest, a.unit, FALSE)]
       [] a.k = "exists" ->
            IF HasFile(st, a.target) THEN [r EXCEPT !.todo = rest]
            ELSE [r EXCEPT !.todo = Skip(rest, a.unit, TRUE)]
       [] a.k = "load" ->
            IF HasFile(st, a.target)
            THEN [r EXCEPT !.todo = rest,
                           !.seen.fs = Write(@, a.target, st.fs[a.target])]
            ELSE [status |-> "FileNotFoundError", reads |-> DOMAIN r.seen.fs]

\* what the call r returns once it has no access left to make: the result
\* built from what it found, and the files it read
LoadReturned(r, partition_idx) ==
  IF r.status = "running" /\ Len(r.todo) = 0
  THEN LoadPartition(r.seen, partition_idx) @@ [reads |-> DOMAIN r.seen.fs]
  ELSE r

---------------------------------------------------------------------------
(* Inputs *)

NodeIds == 0..(NumNodes - 1)
PartCounts == 2..MaxParts
ChunkSizes == 1..MaxChunk
Strategies == {"by_src", "by_dst"}

\* the edge lists: parallel rows and cols over the node ids
EdgeLists ==
  UNION {{<<r, c>> : r \in [1..k -> NodeIds], c \in [1..k -> NodeIds]} : k \in 0..MaxEdges}

\* the total node partition books over num_parts shards
Books(num_parts) == [1..NumNodes -> 0..(num_parts - 1)]

\* a second node type's book: every node moved s shards on
Rotated(pb, s, num_parts) == [k \in 1..Len(pb) |-> (pb[k] + s) % num_parts]

HeteroBooks(num_parts) ==
  {[a |-> pa, b |-> Rotated(pa, s, num_parts)] :
     pa \in Books(num_parts), s \in 0..(num_parts - 1)}

Idle == [fn |-> "idle"]
NoRet == [status |-> "none"]
NoPartitioner == [data_cls |-> "none"]
NoHooks == [node |-> <<>>, cache |-> <<>>]
NoDataset == [status |-> "none"]
NotStarted == [at |-> 0, status |-> "none"]

\* the variables a specification of one function leaves alone
Unused ==
  /\ hooks = NoHooks
  /\ pc = NotStarted
  /\ fs = <<>>
  /\ dirs = {}
  /\ dataset = NoDataset

---------------------------------------------------------------------------
(* SpecPG: _partition_graph applied to every bounded input *)

InitPG ==
  /\ partitioner = NoPartitioner
  /\ call = Idle
  /\ ret = NoRet
  /\ heap = <<>>
  /\ Unused

\* a homogeneous partitioner is constructed over an edge list; the
\* constructor creates the output directory
ConstructHomo ==
  /\ partitioner = NoPartitioner
  /\ \E num_parts \in PartCounts, ei \in EdgeLists, strategy \in Strategies,
        chunk_size \in ChunkSizes :
       partitioner' = Partitioner(num_parts, PyInt(NumNodes), Tensor(ei), NoneArg, NoneArg,
                                  strategy, chunk_size)
  /\ dirs' = EnsureDir(dirs, RootDir)
  /\ UNCHANGED <<call, ret, heap, hooks, pc, fs, dataset>>

\* a heterogeneous partitioner is constructed over one edge type's edge
\* list; the constructor creates the output directory
ConstructHetero ==
  /\ partitioner = NoPartitioner
  /\ \E num_parts \in PartCounts, ei \in EdgeLists, strategy \in Strategies,
        chunk_size \in ChunkSizes, et \in EdgeTypeSet :
       partitioner' = Partitioner(num_parts, Dict(NodeTypes, [a |-> NumNodes, b |-> NumNodes]),
                                  Dict(<<et>>, et :> ei), NoneArg, NoneArg, strategy, chunk_size)
  /\ dirs' = EnsureDir(dirs, RootDir)
  /\ UNCHANGED <<call, ret, heap, hooks, pc, fs, dataset>>

\* _partition_graph(node_pb) on the homogeneous partitioner
CallPartitionGraphHomo ==
  /\ partitioner.data_cls = "homo"
  /\ call.fn = "idle"
  /\ \E node_pb \in Books(partitioner.num_parts) :
       /\ call' = [fn |-> "_partition_graph", node_pb |-> node_pb, etype |-> NoEtype]
       /\ ret' = PartitionGraph(partitioner, node_pb, NoEtype)
  /\ UNCHANGED <<partitioner, heap, hooks, pc, fs, dirs, dataset>>

\* _partition_graph(node_pb_dict, etype) on the heterogeneous partitioner
CallPartitionGraphHetero ==
  /\ partitioner.data_cls = "hetero"
  /\ call.fn = "idle"
  /\ \E node_pb \in HeteroBooks(partitioner.num_parts),
        etype \in DOMAIN partitioner.edge_index.v :
       /\ call' = [fn |-> "_partition_graph", node_pb |-> node_pb, etype |-> etype]
       /\ ret' = PartitionGraph(partitioner, node_pb, etype)
  /\ UNCHANGED <<partitioner, heap, hooks, pc, fs, dirs, dataset>>

\* _partition_graph(node_pb_dict) on the heterogeneous partitioner, etype omitted
CallPartitionGraphNoEtype ==
  /\ partitioner.data_cls = "hetero"
  /\ call.fn = "idle"
  /\ \E node_pb \in HeteroBooks(partitioner.num_parts) :
       /\ call' = [fn |-> "_partition_graph", node_pb |-> node_pb, etype |-> NoEtype]
       /\ ret' = PartitionGraph(partitioner, node_pb, NoEtype)
  /\ UNCHANGED <<partitioner, heap, hooks, pc, fs, dirs, dataset>>

NextPG ==
  \/ ConstructHomo
  \/ ConstructHetero
  \/ CallPartitionGraphHomo
  \/ CallPartitionGraphHetero
  \/ CallPartitionGraphNoEtype

SpecPG == InitPG /\ [][NextPG]_vars

---------------------------------------------------------------------------
(* SpecCat: cat_feature_cache applied to every bounded feature partition *)

IdSpace == 0..(NumIds - 1)

\* the tensors of at most n distinct ids, in any order
IdTensors(n) ==
  {t \in SeqsUpTo(IdSpace, n) : \A i, j \in 1..Len(t) : i # j => t[i] # t[j]}

\* the feature partitions: owned rows and ids, and a cache that is absent,
\* present, or present in one of its two fields only
FeaturePartitions ==
  {FeaturePartitionData(Rows("x", ids), ids, None, None) : ids \in IdTensors(MaxOwned)}
  \cup
  {FeaturePartitionData(Rows("x", ids), ids, Some(Rows("x", cids)), Some(cids)) :
     ids \in IdTensors(MaxOwned), cids \in IdTensors(MaxCache)}
  \cup
  {FeaturePartitionData(Rows("x", ids), ids, None, Some(cids)) :
     ids \in IdTensors(MaxOwned), cids \in IdTensors(MaxCache)}
  \cup
  {FeaturePartitionData(Rows("x", ids), ids, Some(Rows("x", cids)), None) :
     ids \in IdTensors(MaxOwned), cids \in IdTensors(MaxCache)}

\* the total partition books over the id space
FeatBooks(num_parts) == [1..NumIds -> 0..(num_parts - 1)]

InitCat ==
  /\ partitioner = NoPartitioner
  /\ call = Idle
  /\ ret = NoRet
  /\ heap = <<>>
  /\ Unused

\* a loaded feature partition and the partition book tensor of its type
MakeFeaturePartition ==
  /\ call.fn = "idle"
  /\ \E num_parts \in PartCounts, feat_pdata \in FeaturePartitions :
       \E book \in FeatBooks(num_parts) :
         /\ call' = [fn |-> "loaded", num_parts |-> num_parts, feat_pdata |-> feat_pdata,
                     feat_pb |-> "feat_pb", book |-> book]
         /\ heap' = ("feat_pb" :> book)
  /\ UNCHANGED <<partitioner, ret, hooks, pc, fs, dirs, dataset>>

\* cat_feature_cache(partition_idx, feat_pdata, feat_pb)
CallCatFeatureCache ==
  /\ call.fn = "loaded"
  /\ \E partition_idx \in 0..(call.num_parts - 1) :
       LET r == CatFeatureCache(heap, partition_idx, call.feat_pdata, call.feat_pb,
                                "new_feat_pb")
       IN /\ call' = [call EXCEPT !.fn = "cat_feature_cache"] @@
                     [partition_idx |-> partition_idx]
          /\ ret' = [f \in (DOMAIN r) \ {"heap"} |-> r[f]]
          /\ heap' = r.heap
  /\ UNCHANGED <<partitioner, hooks, pc, fs, dirs, dataset>>

NextCat == MakeFeaturePartition \/ CallCatFeatureCache

SpecCat == InitCat /\ [][NextCat]_vars

---------------------------------------------------------------------------
(* SpecCtor: PartitionerBase.__init__ on every bounded argument list *)

NumNodesArgs == {PyInt(NumNodes), Dict(NodeTypes, [a |-> NumNodes, b |-> NumNodes])}

EdgeIndexArgs ==
  {Tensor(RingEdges(m)) : m \in 1..MaxEdges}
  \cup {Dict(EdgeTypes, [et \in {EdgeTypes[1], EdgeTypes[2]} |-> RingEdges(m)]) :
          m \in 1..MaxEdges}

NodeFeatArgs ==
  {NoneArg, Tensor(FeatTensor("nf", NumNodes)), List(FeatTensor("nf", NumNodes)),
   Dict(NodeTypes, [a |-> FeatTensor("nf_a", NumNodes), b |-> FeatTensor("nf_b", NumNodes)])}

EdgeFeatArgs(edge_index) ==
  LET m == IF IsDict(edge_index) THEN Len(edge_index.v[EdgeTypes[1]][1])
           ELSE Len(edge_index.v[1])
  IN {NoneArg, Tensor(FeatTensor("ef", m)),
      Dict(EdgeTypes, [et \in {EdgeTypes[1], EdgeTypes[2]} |-> FeatTensor(et[2], m)])}

InitCtor ==
  /\ \E num_parts \in 0..MaxParts, num_nodes \in NumNodesArgs, edge_index \in EdgeIndexArgs,
        node_feat \in NodeFeatArgs, strategy \in {"by_src", "By_Dst", "by_edge"} :
       \E edge_feat \in EdgeFeatArgs(edge_index), existed \in BOOLEAN :
         /\ call = [fn |-> "__init__", num_parts |-> num_parts, num_nodes |-> num_nodes,
                    edge_index |-> edge_index, node_feat |-> node_feat,
                    edge_feat |-> edge_feat, edge_assign_strategy |-> strategy,
                    chunk_size |-> DefaultChunkSize, dir_existed |-> existed]
         /\ dirs = IF existed THEN {RootDir} ELSE {}
  /\ pc = [at |-> 0, status |-> "running"]
  /\ partitioner = NoPartitioner
  /\ hooks = NoHooks
  /\ fs = <<>>
  /\ ret = NoRet
  /\ dataset = NoDataset
  /\ heap = <<>>

NextCtor ==
  \/ CtorEnsureDir
  \/ CtorCheckNumParts
  \/ CtorCheckShapes
  \/ CtorCheckStrategy

SpecCtor == InitCtor /\ [][NextCtor]_vars

---------------------------------------------------------------------------
(* Spec: partition() of a constructed partitioner into its output           *)
(* directory, and load_partition on that directory                          *)

\* _partition_node, as a subclass defines it: a book, and per shard the ids
\* the book assigns to it in increasing order
RangeBook(n, num_parts) == [i \in 1..n |-> ((i - 1) * num_parts) \div n]
HashBook(n, num_parts) == [i \in 1..n |-> (i - 1) % num_parts]
SingleBook(n) == [i \in 1..n |-> 0]

RunBooks(num_parts) ==
  {RangeBook(NumNodes, num_parts), HashBook(NumNodes, num_parts), SingleBook(NumNodes)}

PartitionNode(pb, num_parts) ==
  [node_ids_list |->
     [p \in 1..num_parts |->
        MaskedSelect(Arange(Len(pb)), [k \in 1..Len(pb) |-> pb[k] = p - 1])],
   node_pb |-> pb]

\* _cache_node, as a subclass defines it: no cache at all, or per shard the
\* first MaxCache ids other shards own; a shard with nothing to cache gets
\* None under "skip" and an empty tensor under "empty"
CachePolicies == {"none", "skip", "empty"}

CacheNode(policy, pb, num_parts) ==
  [p \in 1..num_parts |->
     LET remote == MaskedSelect(Arange(Len(pb)), [k \in 1..Len(pb) |-> pb[k] # p - 1])
         hot == SubSeq(remote, 1, Min(MaxCache, Len(remote)))
     IN IF policy = "none" \/ (policy = "skip" /\ Len(hot) = 0)
        THEN None ELSE Some(hot)]

FeatOptions == {"none", "full", "partial"}

HomoPartitioner(num_parts, m, strategy, nf, ef) ==
  Partitioner(num_parts, PyInt(NumNodes), Tensor(RingEdges(m)),
              IF nf = "none" THEN NoneArg ELSE Tensor(FeatTensor("n", NumNodes)),
              IF ef = "none" THEN NoneArg ELSE Tensor(FeatTensor("e", m)),
              strategy, DefaultChunkSize)

HeteroPartitioner(num_parts, m, m2, strategy, nf, ef) ==
  LET edges == [et \in EdgeTypeSet |-> IF et = EdgeTypes[1] THEN m ELSE m2]
  IN Partitioner(num_parts, Dict(NodeTypes, [a |-> NumNodes, b |-> NumNodes]),
                 Dict(EdgeTypes, [et \in EdgeTypeSet |-> RingEdges(edges[et])]),
                 CASE nf = "none" -> NoneArg
                   [] nf = "full" ->
                        Dict(NodeTypes, [t \in {"a", "b"} |-> FeatTensor(t, NumNodes)])
                   [] OTHER -> Dict(<<"a">>, [t \in {"a"} |-> FeatTensor(t, NumNodes)]),
                 CASE ef = "none" -> NoneArg
                   [] ef = "full" ->
                        Dict(EdgeTypes,
                             [et \in EdgeTypeSet |-> FeatTensor(et[2], edges[et])])
                   [] OTHER ->
                        Dict(<<EdgeTypes[1]>>,
                             [et \in {EdgeTypes[1]} |-> FeatTensor(et[2], edges[et])]),
                 strategy, DefaultChunkSize)

\* a constructed partitioner and the hooks of its subclass
Configured ==
  \E num_parts \in PartCounts, m \in 0..MaxEdges, strategy \in Strategies,
        nf \in FeatOptions, ef \in FeatOptions, policy \in CachePolicies :
     \E pb \in RunBooks(num_parts) :
       /\ nf = "none" => policy = "none"
       /\ \/ /\ nf # "partial" /\ ef # "partial"
             /\ partitioner = HomoPartitioner(num_parts, m, strategy, nf, ef)
             /\ hooks = [node |-> (NoNtype :> PartitionNode(pb, num_parts)),
                         cache |-> (NoNtype :> CacheNode(policy, pb, num_parts))]
          \/ \E m2 \in {0, m} :
               LET pb2 == Rotated(pb, 1, num_parts)
               IN /\ partitioner = HeteroPartitioner(num_parts, m, m2, strategy, nf, ef)
                  /\ hooks = [node |-> [a |-> PartitionNode(pb, num_parts),
                                        b |-> PartitionNode(pb2, num_parts)],
                              cache |-> [a |-> CacheNode(policy, pb, num_parts),
                                         b |-> CacheNode(policy, pb2, num_parts)]]

Init ==
  /\ Configured
  /\ pc = NotStarted
  /\ fs = <<>>
  /\ dirs = {RootDir}
  /\ call = Idle
  /\ ret = NoRet
  /\ dataset = NoDataset
  /\ heap = <<>>

Store == [fs |-> fs, dirs |-> dirs]

\* the file operation partition() is at
NextOp == pc.plan[pc.at + 1]

\* partition() is called: pc.plan holds the file operations it is going to
\* execute on the data of the partitioner, pc.at how many it has executed
PartitionCall ==
  /\ pc.status = "none"
  /\ pc' = [plan |-> PartitionPlan(partitioner, hooks)] @@ [pc EXCEPT !.status = "running"]
  /\ UNCHANGED <<partitioner, hooks, fs, dirs, call, ret, dataset, heap>>

\* partition() executes its next file operation, one of the save function
\* kind; it returns when the meta dict has been dumped
SaveStep(kind) ==
  /\ pc.status = "running"
  /\ NextOp.op = kind
  /\ LET st == Applied(Store, NextOp)
     IN /\ fs' = st.fs
        /\ dirs' = st.dirs
  /\ pc' = [pc EXCEPT !.at = pc.at + 1,
                       !.status = IF NextOp.step = "pickle_dump" THEN "returned"
                                  ELSE "running"]
  /\ UNCHANGED <<partitioner, hooks, call, ret, dataset, heap>>

DoSaveFeaturePartition == SaveStep("save_feature_partition")
DoSaveNodePb == SaveStep("save_node_pb")
DoSaveGraphPartition == SaveStep("save_graph_partition")
DoSaveEdgePb == SaveStep("save_edge_pb")
DoSaveMeta == SaveStep("save_meta")

\* partition() raises where its next file operation would have been
PartitionRaises ==
  /\ pc.status = "running"
  /\ NextOp.op = "raise"
  /\ pc' = [pc EXCEPT !.status = "raised"]
  /\ UNCHANGED <<partitioner, hooks, fs, dirs, call, ret, dataset, heap>>

\* a load_partition call is under way
LoadRunning == call.fn = "load_partition" /\ ret.status = "running"

\* load_partition(output_dir, partition_idx) is called, at any moment when
\* no other call of it is under way, and reads META
CallLoadPartition ==
  /\ ~LoadRunning
  /\ \E partition_idx \in (0 - 1)..MaxParts :
       /\ call' = [fn |-> "load_partition", partition_idx |-> partition_idx]
       /\ ret' = LoadOpened(Store, partition_idx)
  /\ UNCHANGED <<partitioner, hooks, pc, fs, dirs, dataset, heap>>

\* the call under way makes its next access to the directory, and returns
\* when that was its last
LoadPartitionAccess ==
  /\ LoadRunning
  /\ ret' = LoadReturned(LoadAccessed(Store, ret), call.partition_idx)
  /\ UNCHANGED <<partitioner, hooks, pc, fs, dirs, call, dataset, heap>>

Next ==
  \/ PartitionCall
  \/ DoSaveFeaturePartition
  \/ DoSaveNodePb
  \/ DoSaveGraphPartition
  \/ DoSaveEdgePb
  \/ DoSaveMeta
  \/ PartitionRaises
  \/ CallLoadPartition
  \/ LoadPartitionAccess

Spec == Init /\ [][Next]_vars

---------------------------------------------------------------------------
(* SpecLoad: load_partition on the directory of a completed partition()     *)
(* run from which one directory or file may have gone missing              *)

\* the store after the file operations ops, one after the other (next is the
\* store after operation i, evaluated once)
RECURSIVE Ran(_, _, _)
Ran(st, ops, i) ==
  IF i > Len(ops) THEN st
  ELSE CHOOSE r \in {Ran(next, ops, i + 1) : next \in {Applied(st, ops[i])}} : TRUE

Completes(plan) == plan[Len(plan)].op = "save_meta"

InitLoad ==
  /\ Configured
  /\ \E plan \in {PartitionPlan(partitioner, hooks)} :
       /\ Completes(plan)
       /\ \E st \in {Ran([fs |-> <<>>, dirs |-> {RootDir}], plan, 1)} :
            fs = st.fs /\ dirs = st.dirs
       /\ pc = [at |-> Len(plan), status |-> "returned"]
  /\ call = Idle
  /\ ret = NoRet
  /\ dataset = NoDataset
  /\ heap = <<>>

\* x, a directory or a file, lies in directory d
Under(d, x) ==
  /\ x[1] = d[1]
  /\ d[2] = "" \/ (x[2] = d[2] /\ (d[3] = "" \/ x[3] = d[3]))

\* a directory below the output directory goes missing with all it holds
LoseDir ==
  /\ pc.status = "returned"
  /\ call = Idle
  /\ \E d \in dirs \ {RootDir} :
       /\ dirs' = {x \in dirs : ~Under(d, x)}
       /\ fs' = [f \in {x \in DOMAIN fs : ~Under(d, x)} |-> fs[f]]
  /\ pc' = [pc EXCEPT !.status = "damaged"]
  /\ UNCHANGED <<partitioner, hooks, call, ret, dataset, heap>>

\* a file other than META goes missing
LoseFile ==
  /\ pc.status = "returned"
  /\ call = Idle
  /\ \E f \in (DOMAIN fs) \ {<<RootPart, "", "", "META">>} :
       fs' = [g \in (DOMAIN fs) \ {f} |-> fs[g]]
  /\ pc' = [pc EXCEPT !.status = "damaged"]
  /\ UNCHANGED <<partitioner, hooks, dirs, call, ret, dataset, heap>>

NextLoad ==
  \/ LoseDir
  \/ LoseFile
  \/ CallLoadPartition
  \/ LoadPartitionAccess

SpecLoad == InitLoad /\ [][NextLoad]_vars

---------------------------------------------------------------------------
(* SpecRerun: partition() into a directory that holds the output of an      *)
(* earlier completed run, and load_partition on that directory              *)

\* the partitioner and hooks of one choice of inputs
Configuration(hetero, num_parts, pb, m, m2, strategy, nf, ef, policy) ==
  IF hetero
  THEN [partitioner |-> HeteroPartitioner(num_parts, m, m2, strategy, nf, ef),
        hooks |-> [node |-> [a |-> PartitionNode(pb, num_parts),
                             b |-> PartitionNode(Rotated(pb, 1, num_parts), num_parts)],
                   cache |-> [a |-> CacheNode(policy, pb, num_parts),
                              b |-> CacheNode(policy, Rotated(pb, 1, num_parts),
                                              num_parts)]]]
  ELSE [partitioner |-> HomoPartitioner(num_parts, m, strategy, nf, ef),
        hooks |-> [node |-> (NoNtype :> PartitionNode(pb, num_parts)),
                   cache |-> (NoNtype :> CacheNode(policy, pb, num_parts))]]

OtherStrategy(strategy) == IF strategy = "by_src" THEN "by_dst" ELSE "by_src"

FreshStore == [fs |-> <<>>, dirs |-> {RootDir}]

\* The graph has MaxEdges edges of every type and the latest run assigns
\* edges by source.  The earlier run had the same inputs, or the same graph
\* and books with the other strategy, features for every type and a cache on
\* every shard.  pc.before keeps the directory as the earlier run left it.
InitRerun ==
  /\ \E hetero \in BOOLEAN, num_parts \in PartCounts, m \in {MaxEdges},
        strategy \in {"by_src"}, nf \in FeatOptions, ef \in FeatOptions,
        policy \in CachePolicies, same \in BOOLEAN :
     \E pb \in RunBooks(num_parts), m2 \in {m} :
       /\ nf = "none" => policy = "none"
       /\ ~hetero => (nf # "partial" /\ ef # "partial")
       /\ LET latest == Configuration(hetero, num_parts, pb, m, m2, strategy, nf, ef, policy)
              earlier == IF same THEN latest
                         ELSE Configuration(hetero, num_parts, pb, m, m2,
                                            OtherStrategy(strategy), "full", "full", "empty")
          IN /\ partitioner = latest.partitioner
             /\ hooks = latest.hooks
             /\ \E plan \in {PartitionPlan(earlier.partitioner, earlier.hooks)} :
                  /\ Completes(plan)
                  /\ \E st \in {Ran(FreshStore, plan, 1)} :
                       /\ fs = st.fs
                       /\ dirs = st.dirs
                       /\ pc = [at |-> 0, status |-> "none", before |-> st,
                                earlier |-> IF same THEN "same" ELSE "other"]
  /\ call = Idle
  /\ ret = NoRet
  /\ dataset = NoDataset
  /\ heap = <<>>

SpecRerun == InitRerun /\ [][Next]_vars

\* the same second run with no load_partition call while it is under way
NextPartition ==
  \/ PartitionCall
  \/ DoSaveFeaturePartition
  \/ DoSaveNodePb
  \/ DoSaveGraphPartition
  \/ DoSaveEdgePb
  \/ DoSaveMeta
  \/ PartitionRaises

SpecTwice == InitRerun /\ [][NextPartition]_vars

---------------------------------------------------------------------------
(* SpecDataset: a DistDataset object is constructed, load is called on it   *)
(* again and again over two output directories, and it is sent to another   *)
(* process (share_ipc, rebuild_dist_dataset). In this specification fs and  *)
(* dirs hold one entry per root directory, and fs.labels the label files.   *)

RootDirs == {"A", "B"}

\* the files and directories under one root directory
RootStore(root_dir) == [fs |-> fs[root_dir], dirs |-> dirs[root_dir]]

\* DistDataset.__init__: a holds the ten arguments, an optional one as None
\* or Some(v); the base class keeps the partitions and labels it is given.
\* The fields node_feat_pb and edge_feat_pb of the object are
\* self._node_feat_pb and self._edge_feat_pb.
DatasetInit(a) ==
  IF \/ ~IsNone(a.graph_partition) /\ IsNone(a.node_pb)
     \/ ~IsNone(a.node_feature_partition) /\ IsNone(a.node_pb) /\ IsNone(a.node_feat_pb)
     \/ ~IsNone(a.edge_feature_partition) /\ IsNone(a.edge_pb) /\ IsNone(a.edge_feat_pb)
  THEN [status |-> "AssertionError"]
  ELSE [status |-> "ok",
        self |-> [num_partitions |-> a.num_partitions, partition_idx |-> a.partition_idx,
                  graph |-> a.graph_partition,
                  node_features |-> a.node_feature_partition,
                  edge_features |-> a.edge_feature_partition,
                  node_labels |-> a.whole_node_labels,
                  node_pb |-> a.node_pb, edge_pb |-> a.edge_pb,
                  node_feat_pb |-> a.node_feat_pb, edge_feat_pb |-> a.edge_feat_pb]]

\* the default arguments of DistDataset()
DefaultDatasetArgs ==
  [num_partitions |-> 1, partition_idx |-> 0,
   graph_partition |-> None, node_feature_partition |-> None,
   edge_feature_partition |-> None, whole_node_labels |-> None,
   node_pb |-> None, edge_pb |-> None, node_feat_pb |-> None, edge_feat_pb |-> None]

\* DistDataset(): the fields after construction with the default arguments
NewDataset == DatasetInit(DefaultDatasetArgs).self

\* the label tensor of a node type: one label per node
WholeLabels == [i \in 1..NumNodes |-> i % 2]

\* a graph, a feature and a book handed to the constructor
GivenGraph == Some(Some(GraphPartitionData(<<0>>, <<1>>, <<0>>)))
GivenFeature == Some([feats |-> <<7>>, id2idx |-> <<0>>, cache_ratio |-> <<0, 1>>])
GivenBook == Some([i \in 1..NumNodes |-> (i - 1) % MaxParts])

\* the argument lists the constructor is called with: the defaults, counts
\* and a node book, everything, and partitions with and without the books
\* the constructor asserts on
DatasetArgs ==
  {DefaultDatasetArgs,
   [DefaultDatasetArgs EXCEPT !.num_partitions = MaxParts + 1, !.partition_idx = MaxParts,
                              !.node_pb = GivenBook],
   [DefaultDatasetArgs EXCEPT !.num_partitions = MaxParts, !.graph_partition = GivenGraph,
                              !.node_feature_partition = GivenFeature,
                              !.edge_feature_partition = GivenFeature,
                              !.whole_node_labels = Some(WholeLabels),
                              !.node_pb = GivenBook, !.edge_pb = GivenBook,
                              !.node_feat_pb = GivenBook, !.edge_feat_pb = GivenBook],
   [DefaultDatasetArgs EXCEPT !.graph_partition = GivenGraph],
   [DefaultDatasetArgs EXCEPT !.node_feature_partition = GivenFeature],
   [DefaultDatasetArgs EXCEPT !.node_feature_partition = GivenFeature,
                              !.node_feat_pb = GivenBook],
   [DefaultDatasetArgs EXCEPT !.edge_feature_partition = GivenFeature],
   [DefaultDatasetArgs EXCEPT !.edge_feature_partition = GivenFeature,
                              !.edge_pb = GivenBook]}

\* share_ipc: the books go to shared memory with their contents; the handle
\* holds the ten fields in the order of the constructor's arguments
ShareIpc(self) ==
  [num_partitions |-> self.num_partitions, partition_idx |-> self.partition_idx,
   graph_partition |-> self.graph, node_feature_partition |-> self.node_features,
   edge_feature_partition |-> self.edge_features, whole_node_labels |-> self.node_labels,
   node_pb |-> self.node_pb, edge_pb |-> self.edge_pb,
   node_feat_pb |-> self.node_feat_pb, edge_feat_pb |-> self.edge_feat_pb]

\* from_ipc_handle / rebuild_dist_dataset: cls(*ipc_handle)
FromIpcHandle(ipc_handle) == DatasetInit(ipc_handle)

\* a path given as whole_node_label_file
Str(path) == [kind |-> "str", v |-> path]

\* the label files that exist: path -> content
LabelFiles == ("label.pt" :> WholeLabels)

\* the values whole_node_label_file takes: None, the path of a file that
\* exists or of one that does not, a dict of such paths
LabelFileArgs ==
  <<NoneArg, Str("label.pt"), Str("missing.pt"),
    Dict(<<"a">>, [a |-> "label.pt"]),
    Dict(<<"a", "b">>, [a |-> "label.pt", b |-> "missing.pt"])>>

\* the last part of load: torch.load of the label file, or of each file of
\* the dict, then init_node_labels, which keeps what it is given
LoadLabels(self, files, whole_node_label_file) ==
  IF whole_node_label_file.kind = "none" THEN [status |-> "ok", self |-> self]
  ELSE IF IsDict(whole_node_label_file)
  THEN IF \E t \in DOMAIN whole_node_label_file.v :
            whole_node_label_file.v[t] \notin DOMAIN files
       THEN [status |-> "FileNotFoundError", self |-> self]
       ELSE [status |-> "ok",
             self |-> [self EXCEPT !.node_labels =
                         Some([t \in DOMAIN whole_node_label_file.v |->
                                 files[whole_node_label_file.v[t]]])]]
  ELSE IF whole_node_label_file.v \notin DOMAIN files
       THEN [status |-> "FileNotFoundError", self |-> self]
       ELSE [status |-> "ok",
             self |-> [self EXCEPT !.node_labels = Some(files[whole_node_label_file.v])]]

\* the properties node_feat_pb / edge_feat_pb; the fields node_feat_pb and
\* edge_feat_pb of the record are self._node_feat_pb and self._edge_feat_pb
NodeFeatPb(self) == IF IsNone(self.node_feat_pb) THEN self.node_pb ELSE self.node_feat_pb
EdgeFeatPb(self) == IF IsNone(self.edge_feat_pb) THEN self.edge_pb ELSE self.edge_feat_pb

\* cat_feature_cache on a book held by value: the returned book is read
\* from the heap the call leaves
CatOne(partition_idx, raw_feat, book) ==
  LET r == CatFeatureCache("feat_pb" :> book, partition_idx, raw_feat, "feat_pb",
                           "new_feat_pb")
  IN IF r.status # "ok" THEN [status |-> r.status]
     ELSE [status |-> "ok", cache_ratio |-> r.cache_ratio, feats |-> r.feats,
           id2idx |-> r.id2idx, feat_pb |-> r.heap[r.feat_pb]]

\* the heterogeneous branch of _cat_feature_cache: each holds the result of
\* cat_feature_cache per type, keys the dict's keys in insertion order; the
\* first call that raises ends the loop
CatDict(each, keys) ==
  LET failing == SelectSeq(keys, LAMBDA t : t \in DOMAIN each /\ each[t].status # "ok")
  IN IF Len(failing) > 0 THEN [status |-> each[failing[1]].status]
     ELSE [status |-> "ok",
           cache_ratio |-> [t \in DOMAIN each |-> each[t].cache_ratio],
           feats |-> [t \in DOMAIN each |-> each[t].feats],
           id2idx |-> [t \in DOMAIN each |-> each[t].id2idx],
           feat_pb |-> [t \in DOMAIN each |-> each[t].feat_pb]]

\* _cat_feature_cache(partition_idx, raw_feat_data, raw_feat_pb): is_dict is
\* isinstance(raw_feat_data, dict)
DatasetCatFeatureCache(partition_idx, raw_feat_data, raw_feat_pb, is_dict, keys) ==
  IF is_dict
  THEN CatDict([t \in DOMAIN raw_feat_data |->
                  CatOne(partition_idx, raw_feat_data[t], raw_feat_pb[t])], keys)
  ELSE CatOne(partition_idx, raw_feat_data, raw_feat_pb)

\* the tuple assignment from load_partition's result
AssignLoaded(self, loaded) ==
  [self EXCEPT !.num_partitions = loaded.num_partitions,
               !.partition_idx = loaded.partition_idx,
               !.node_pb = Some(loaded.node_pb),
               !.edge_pb = Some(loaded.edge_pb)]

\* the feature branch of load: raw is the loaded feature data (None when the
\* partition has none), field_features and field_pb the fields it assigns;
\* the init_*_features methods keep what they are given
LoadFeatures(self, partition_idx, raw, pb, is_dict, keys, field_features, field_pb) ==
  IF IsNone(raw) THEN [status |-> "ok", self |-> self]
  ELSE \* the set holds the one result of _cat_feature_cache
       CHOOSE r \in {IF cat.status # "ok" THEN [status |-> cat.status, self |-> self]
                     ELSE [status |-> "ok",
                           self |-> [self EXCEPT
                                       ![field_features] =
                                          Some([feats |-> cat.feats,
                                                id2idx |-> cat.id2idx,
                                                cache_ratio |-> cat.cache_ratio]),
                                       ![field_pb] = Some(cat.feat_pb)]] :
                       cat \in {DatasetCatFeatureCache(partition_idx, Val(raw), pb,
                                                       is_dict, keys)}} : TRUE

\* load after load_partition has returned: loaded is its result
LoadFrom(self, loaded, partition_idx, is_dict, ntypes, etypes) ==
  IF IF is_dict THEN \E et \in DOMAIN loaded.graph : IsNone(loaded.graph[et])
     ELSE IsNone(loaded.graph)
  THEN \* graph_data.edge_index of None
       [status |-> "AttributeError", self |-> AssignLoaded(self, loaded)]
  ELSE CHOOSE r \in
         {IF node.status # "ok" THEN node
          ELSE LoadFeatures(node.self, partition_idx, loaded.edge_feat, loaded.edge_pb,
                            is_dict, etypes, "edge_features", "edge_feat_pb") :
            node \in {LoadFeatures([AssignLoaded(self, loaded) EXCEPT
                                      !.graph = Some(loaded.graph)],
                                   partition_idx, loaded.node_feat, loaded.node_pb,
                                   is_dict, ntypes, "node_features", "node_feat_pb")}} :
         TRUE

\* load up to the node labels: a failing load_partition assigns nothing
LoadAssigned(self, st, partition_idx) ==
  CHOOSE r \in
    {IF loaded.status # "ok" THEN [status |-> loaded.status, self |-> self]
     ELSE LoadFrom(self, loaded, partition_idx,
                   st.fs[<<RootPart, "", "", "META">>].data_cls = "hetero",
                   IF st.fs[<<RootPart, "", "", "META">>].data_cls = "hetero"
                   THEN Val(st.fs[<<RootPart, "", "", "META">>].node_types) ELSE <<>>,
                   IF st.fs[<<RootPart, "", "", "META">>].data_cls = "hetero"
                   THEN Val(st.fs[<<RootPart, "", "", "META">>].edge_types) ELSE <<>>) :
       loaded \in {LoadPartition(st, partition_idx)}} : TRUE

\* DistDataset.load(root_dir, partition_idx, whole_node_label_file = ...):
\* the outcome and the fields of the object afterwards; files are the label
\* files that exist.  The label files are loaded last: when one is missing
\* the call raises with the partition already assigned.
DistDatasetLoad(self, st, partition_idx, whole_node_label_file, files) ==
  CHOOSE r \in
    {IF data.status # "ok" THEN data
     ELSE LoadLabels(data.self, files, whole_node_label_file) :
       data \in {LoadAssigned(self, st, partition_idx)}} : TRUE

\* the feature options of the run that filled the second directory
OtherFeatOptions == {"none", "full"}

\* Two directories, each the output of a completed partition() run: A of a
\* graph of MaxEdges edges assigned by source with any books and features, B
\* of the same graph with other node books, and with features for every type
\* (and a cache where a shard has remote ids) or for none.
InitDataset ==
  /\ \E hetero \in BOOLEAN, num_parts \in PartCounts, m \in {MaxEdges},
        strategy \in {"by_src"}, nf \in FeatOptions, ef \in FeatOptions,
        policy \in CachePolicies, bf \in OtherFeatOptions :
     \E pb \in RunBooks(num_parts), m2 \in {0, m} :
       /\ nf = "none" => policy = "none"
       /\ ~hetero => (nf # "partial" /\ ef # "partial" /\ m2 = m)
       /\ LET a == Configuration(hetero, num_parts, pb, m, m2, strategy, nf, ef, policy)
              b == Configuration(hetero, num_parts, Rotated(pb, 1, num_parts), m, m2,
                                 strategy, bf, bf,
                                 IF bf = "none" THEN "none" ELSE "skip")
          IN \E plan_a \in {PartitionPlan(a.partitioner, a.hooks)},
                plan_b \in {PartitionPlan(b.partitioner, b.hooks)} :
               /\ Completes(plan_a)
               /\ Completes(plan_b)
               /\ \E sa \in {Ran(FreshStore, plan_a, 1)},
                     sb \in {Ran(FreshStore, plan_b, 1)} :
                    /\ fs = [A |-> sa.fs, B |-> sb.fs, labels |-> LabelFiles]
                    /\ dirs = [A |-> sa.dirs, B |-> sb.dirs]
  /\ partitioner = NoPartitioner
  /\ hooks = NoHooks
  /\ pc = NotStarted
  /\ call = Idle
  /\ ret = NoRet
  /\ dataset = NoDataset
  /\ heap = <<>>

\* DistDataset(...): the object is constructed; pc tells whether with the
\* default arguments.  A constructor that raises leaves no object.
CallDatasetInit ==
  /\ dataset = NoDataset
  /\ \E a \in DatasetArgs :
       LET r == DatasetInit(a)
       IN /\ call' = [fn |-> "DistDataset", args |-> a]
          /\ ret' = [status |-> r.status]
          /\ IF r.status = "ok"
             THEN /\ dataset' = r.self
                  /\ pc' = [pc EXCEPT !.status =
                              IF a = DefaultDatasetArgs THEN "default" ELSE "given"]
             ELSE UNCHANGED <<dataset, pc>>
  /\ UNCHANGED <<partitioner, hooks, fs, dirs, heap>>

\* dataset.load(root_dir, partition_idx, whole_node_label_file = ...)
CallDatasetLoad ==
  /\ dataset # NoDataset
  /\ \E root_dir \in RootDirs, partition_idx \in (0 - 1)..MaxParts,
        i \in DOMAIN LabelFileArgs :
       LET r == DistDatasetLoad(dataset, RootStore(root_dir), partition_idx,
                                LabelFileArgs[i], fs.labels)
       IN /\ call' = [fn |-> "DistDataset.load", root_dir |-> root_dir,
                      partition_idx |-> partition_idx,
                      whole_node_label_file |-> LabelFileArgs[i]]
          /\ ret' = [status |-> r.status]
          /\ dataset' = r.self
  /\ UNCHANGED <<partitioner, hooks, pc, fs, dirs, heap>>

\* dataset.share_ipc(): the handle is returned, the fields keep their values
CallShareIpc ==
  /\ dataset # NoDataset
  /\ call' = [fn |-> "share_ipc"]
  /\ ret' = [status |-> "ok", ipc_handle |-> ShareIpc(dataset)]
  /\ UNCHANGED <<partitioner, hooks, pc, fs, dirs, dataset, heap>>

\* rebuild_dist_dataset(ipc_handle) on the handle share_ipc returned: the
\* object is from then on the one built from the handle
CallRebuildDistDataset ==
  /\ call.fn = "share_ipc"
  /\ LET r == FromIpcHandle(ret.ipc_handle)
     IN /\ call' = [fn |-> "rebuild_dist_dataset"]
        /\ ret' = [status |-> r.status]
        /\ dataset' = IF r.status = "ok" THEN r.self ELSE NoDataset
  /\ UNCHANGED <<partitioner, hooks, pc, fs, dirs, heap>>

NextDataset ==
  \/ CallDatasetInit
  \/ CallDatasetLoad
  \/ CallShareIpc
  \/ CallRebuildDistDataset

SpecDataset == InitDataset /\ [][NextDataset]_vars

---------------------------------------------------------------------------
(* SpecGet: the per-type getters and partition steps of a constructed       *)
(* partitioner, called with and without a type argument                     *)

\* get_edge_index(etype)
GetEdgeIndexResult(self, etype) ==
  IF GetEdgeIndexFails(self, etype) THEN [status |-> "AssertionError"]
  ELSE [status |-> "ok", v |-> GetEdgeIndex(self, etype)]

\* the type arguments a caller passes: a type of the graph, or none
NodeTypeArgs == {NoNtype} \cup SeqRange(NodeTypes)
EdgeTypeArgs == {NoEtype} \cup EdgeTypeSet

\* an argument fits the homogeneous graph only when it is omitted
FitsNode(self, ntype) == self.data_cls = "hetero" \/ ntype = NoNtype
FitsEdge(self, etype) == self.data_cls = "hetero" \/ etype = NoEtype

\* some node type of the graph, for the node_ids_list argument
AnyNodeType(self) == IF self.data_cls = "hetero" THEN NodeTypes[1] ELSE NoNtype
AnyEdgeType(self) == IF self.data_cls = "hetero" THEN EdgeTypes[1] ELSE NoEtype

CallGetEdgeIndex ==
  /\ call = Idle
  /\ \E etype \in EdgeTypeArgs :
       /\ FitsEdge(partitioner, etype)
       /\ call' = [fn |-> "get_edge_index", omitted |-> etype = NoEtype]
       /\ ret' = [status |-> GetEdgeIndexResult(partitioner, etype).status]
  /\ UNCHANGED <<partitioner, hooks, pc, fs, dirs, dataset, heap>>

CallGetNodeFeat ==
  /\ call = Idle
  /\ \E ntype \in NodeTypeArgs :
       /\ FitsNode(partitioner, ntype)
       /\ call' = [fn |-> "get_node_feat", omitted |-> ntype = NoNtype]
       /\ ret' = [status |->
                    GetFeat(partitioner, partitioner.node_feat, ntype, ntype = NoNtype).status]
  /\ UNCHANGED <<partitioner, hooks, pc, fs, dirs, dataset, heap>>

CallGetEdgeFeat ==
  /\ call = Idle
  /\ \E etype \in EdgeTypeArgs :
       /\ FitsEdge(partitioner, etype)
       /\ call' = [fn |-> "get_edge_feat", omitted |-> etype = NoEtype]
       /\ ret' = [status |->
                    GetFeat(partitioner, partitioner.edge_feat, etype, etype = NoEtype).status]
  /\ UNCHANGED <<partitioner, hooks, pc, fs, dirs, dataset, heap>>

\* _partition_graph(node_pb, etype) with the books of the node hook
CallPartitionGraph ==
  /\ call = Idle
  /\ \E etype \in EdgeTypeArgs :
       /\ FitsEdge(partitioner, etype)
       /\ call' = [fn |-> "_partition_graph", omitted |-> etype = NoEtype]
       /\ ret' = [status |->
                    PartitionGraph(partitioner, NodePbArg(partitioner, hooks), etype).status]
  /\ UNCHANGED <<partitioner, hooks, pc, fs, dirs, dataset, heap>>

\* _partition_node_feat(node_ids_list, ntype) with the ids of the node hook
CallPartitionNodeFeat ==
  /\ call = Idle
  /\ \E ntype \in NodeTypeArgs :
       /\ FitsNode(partitioner, ntype)
       /\ call' = [fn |-> "_partition_node_feat", omitted |-> ntype = NoNtype]
       /\ ret' = [status |->
                    PartitionNodeFeat(partitioner, hooks,
                      hooks.node[AnyNodeType(partitioner)].node_ids_list, ntype).status]
  /\ UNCHANGED <<partitioner, hooks, pc, fs, dirs, dataset, heap>>

\* _partition_edge_feat(graph_list, etype) with num_parts empty graph shards
CallPartitionEdgeFeat ==
  /\ call = Idle
  /\ \E etype \in EdgeTypeArgs :
       /\ FitsEdge(partitioner, etype)
       /\ call' = [fn |-> "_partition_edge_feat", omitted |-> etype = NoEtype]
       /\ ret' = [status |->
                    PartitionEdgeFeat(partitioner,
                      [p \in 1..partitioner.num_parts |->
                         GraphPartitionData(<<>>, <<>>, <<>>)], etype).status]
  /\ UNCHANGED <<partitioner, hooks, pc, fs, dirs, dataset, heap>>

NextGet ==
  \/ CallGetEdgeIndex
  \/ CallGetNodeFeat
  \/ CallGetEdgeFeat
  \/ CallPartitionGraph
  \/ CallPartitionNodeFeat
  \/ CallPartitionEdgeFeat

SpecGet == Init /\ [][NextGet]_vars

---------------------------------------------------------------------------
(* Claims about _partition_graph, checked under SpecPG *)

\* _partition_graph was called with the arguments a well-formed caller passes
PGCalled ==
  /\ call.fn = "_partition_graph"
  /\ partitioner.data_cls = "hetero" => call.etype # NoEtype

\* the edge list the call is about
PGRows == GetEdgeIndex(partitioner, call.etype)[1]
PGCols == GetEdgeIndex(partitioner, call.etype)[2]
PGEdgeNum == Len(PGRows)
PGShards == 1..partitioner.num_parts

\* the number of (shard, position) places at which edge id e is stored
PGPlaces(e) ==
  Cardinality({pj \in UNION {{<<p, j>> : j \in 1..Len(ret.partition_results[p].eids)} :
                               p \in PGShards} :
                 ret.partition_results[pj[1]].eids[pj[2]] = e})

\* C1: with at least one edge, _partition_graph returns num_parts partitions,
\* each with rows, cols and eids of one length, and the eids of all shards
\* together hold every edge id of [0, num_edges) exactly once.
C1_ShardsPartitionEdgeIds ==
  (PGCalled /\ PGEdgeNum >= 1) =>
    /\ ret.status = "ok"
    /\ Len(ret.partition_results) = partitioner.num_parts
    /\ \A p \in PGShards :
         /\ Len(ret.partition_results[p].rows) = Len(ret.partition_results[p].eids)
         /\ Len(ret.partition_results[p].cols) = Len(ret.partition_results[p].eids)
         /\ \A j \in 1..Len(ret.partition_results[p].eids) :
              ret.partition_results[p].eids[j] \in 0..(PGEdgeNum - 1)
    /\ \A e \in 0..(PGEdgeNum - 1) : PGPlaces(e) = 1

\* C1 witness: a call over several chunks that fills more than one shard
C1_Witness ==
  /\ PGCalled
  /\ PGEdgeNum >= 2
  /\ partitioner.chunk_size < PGEdgeNum
  /\ ret.status = "ok"
  /\ \E p, q \in PGShards :
       /\ p # q
       /\ Len(ret.partition_results[p].eids) >= 1
       /\ Len(ret.partition_results[q].eids) >= 1

\* C2: the edge partition book has length num_edges, every entry is a shard of
\* [0, num_parts), edge_pb[e] = k exactly when e is among shard k's eids, and
\* the number of entries equal to k is the length of shard k's edge list.
C2_EdgeBookAgreesWithShards ==
  (PGCalled /\ PGEdgeNum >= 1) =>
    /\ ret.status = "ok"
    /\ Len(ret.partition_book) = PGEdgeNum
    /\ \A e \in 1..PGEdgeNum : ret.partition_book[e] \in 0..(partitioner.num_parts - 1)
    /\ \A e \in 1..PGEdgeNum : \A p \in PGShards :
         (ret.partition_book[e] = p - 1) <=>
           (\E j \in 1..Len(ret.partition_results[p].eids) :
              ret.partition_results[p].eids[j] = e - 1)
    /\ \A p \in PGShards :
         Cardinality({e \in 1..PGEdgeNum : ret.partition_book[e] = p - 1})
           = Len(ret.partition_results[p].eids)

\* C2 witness: the book sends an edge to a shard other than shard 0
C2_Witness ==
  /\ PGCalled
  /\ ret.status = "ok"
  /\ \E e \in 1..PGEdgeNum : ret.partition_book[e] > 0
  /\ \E e \in 1..PGEdgeNum : ret.partition_book[e] = 0

\* the book the claim names for the designated endpoint
PGDesignatedBook ==
  IF partitioner.data_cls = "hetero"
  THEN IF partitioner.edge_assign_strategy = "by_src"
       THEN call.node_pb[call.etype[1]]
       ELSE call.node_pb[call.etype[3]]
  ELSE call.node_pb

\* C3: every edge (row, col, eid) stored under shard k has node_pb[row] = k
\* with by_src and node_pb[col] = k with by_dst, the book being that of the
\* source (destination) node type for a heterogeneous edge type; and the
\* stored pair of edge id e is the input pair at position e.
C3_EndpointConsistency ==
  (PGCalled /\ PGEdgeNum >= 1) =>
    /\ ret.status = "ok"
    /\ \A p \in PGShards : \A j \in 1..Len(ret.partition_results[p].eids) :
         LET row == ret.partition_results[p].rows[j]
             col == ret.partition_results[p].cols[j]
             eid == ret.partition_results[p].eids[j]
         IN /\ partitioner.edge_assign_strategy = "by_src" =>
                 PGDesignatedBook[row + 1] = p - 1
            /\ partitioner.edge_assign_strategy = "by_dst" =>
                 PGDesignatedBook[col + 1] = p - 1
            /\ row = PGRows[eid + 1]
            /\ col = PGCols[eid + 1]

\* C3 witness: a heterogeneous by_dst call stores under shard k an edge whose
\* source is not owned by k, and whose destination the source type's book
\* would not send to k either
C3_Witness ==
  /\ PGCalled
  /\ partitioner.data_cls = "hetero"
  /\ partitioner.edge_assign_strategy = "by_dst"
  /\ ret.status = "ok"
  /\ \E p \in PGShards : \E j \in 1..Len(ret.partition_results[p].eids) :
       /\ call.node_pb[call.etype[1]][ret.partition_results[p].rows[j] + 1] # p - 1
       /\ call.node_pb[call.etype[1]][ret.partition_results[p].cols[j] + 1] # p - 1

\* the reference: the edge ids whose designated endpoint is in shard k, in
\* increasing order, found by one pass over the whole input
PGDesignated == IF partitioner.edge_assign_strategy = "by_src" THEN PGRows ELSE PGCols

RefEids(k) ==
  LET InShard(e) == PGDesignatedBook[PGDesignated[e + 1] + 1] = k
  IN SelectSeq(Arange(PGEdgeNum), InShard)

RefShard(k) ==
  [rows |-> [j \in 1..Len(RefEids(k)) |-> PGRows[RefEids(k)[j] + 1]],
   cols |-> [j \in 1..Len(RefEids(k)) |-> PGCols[RefEids(k)[j] + 1]],
   eids |-> RefEids(k)]

RefBook == [e \in 1..PGEdgeNum |-> PGDesignatedBook[PGDesignated[e] + 1]]

\* C4: for every chunk_size >= 1 the result is the reference that filters the
\* whole edge list by shard membership in input order, and the same book; so
\* the outcome does not depend on chunk_size.
C4_ChunkingEqualsReference ==
  (PGCalled /\ PGEdgeNum >= 1) =>
    /\ ret.status = "ok"
    /\ \A p \in PGShards : ret.partition_results[p] = RefShard(p - 1)
    /\ ret.partition_book = RefBook

\* C4 witness: one shard receives edges from two different chunks
C4_Witness ==
  /\ PGCalled
  /\ ret.status = "ok"
  /\ partitioner.chunk_size = 1
  /\ \E p \in PGShards : Len(ret.partition_results[p].eids) >= 2

\* C20: _partition_graph on an edge list with zero edges returns num_parts
\* graph partitions whose rows, cols and eids are all empty, and an edge
\* partition book of length 0, without error.
C20_ZeroEdgesEmptyPartitions ==
  (PGCalled /\ PGEdgeNum = 0) =>
    /\ ret.status = "ok"
    /\ Len(ret.partition_results) = partitioner.num_parts
    /\ \A p \in PGShards :
         /\ ret.partition_results[p].rows = <<>>
         /\ ret.partition_results[p].cols = <<>>
         /\ ret.partition_results[p].eids = <<>>
    /\ ret.partition_book = <<>>

---------------------------------------------------------------------------
(* Claims about cat_feature_cache, checked under SpecCat *)

CatCalled == call.fn = "cat_feature_cache"
CatHasCache ==
  /\ ~IsNone(call.feat_pdata.cache_feats)
  /\ ~IsNone(call.feat_pdata.cache_ids)
CatIds == call.feat_pdata.ids
CatCacheIds == Val(call.feat_pdata.cache_ids)
CatDisjoint ==
  \A i \in 1..Len(CatIds), j \in 1..Len(CatCacheIds) : CatIds[i] # CatCacheIds[j]

\* the largest id of a non-empty set of ids
MaxId(S) == CHOOSE m \in S : \A x \in S : x <= m

\* C5: with C >= 1 cache rows and O >= 1 owned rows (ids disjoint) the result
\* has C+O rows, row i < C the cache row of the i-th cache id and row C+j the
\* owned row of the j-th owned id; the id-to-index map has length
\* max(id present)+1, sends the i-th cache id to i and the j-th owned id to
\* C+j; the cache ratio is C/(C+O).
C5_CacheRowsFirst ==
  (CatCalled /\ CatHasCache /\ Len(CatCacheIds) >= 1 /\ Len(CatIds) >= 1 /\ CatDisjoint) =>
    LET C == Len(CatCacheIds)
        O == Len(CatIds)
    IN /\ ret.status = "ok"
       /\ Len(ret.feats) = C + O
       /\ \A i \in 1..C :
            /\ ret.feats[i] = Val(call.feat_pdata.cache_feats)[i]
            /\ ret.feats[i] = Row("x", CatCacheIds[i])
       /\ \A j \in 1..O :
            /\ ret.feats[C + j] = call.feat_pdata.feats[j]
            /\ ret.feats[C + j] = Row("x", CatIds[j])
       /\ Len(ret.id2idx) =
            MaxId({CatIds[j] : j \in 1..O} \cup {CatCacheIds[i] : i \in 1..C}) + 1
       /\ \A i \in 1..C : ret.id2idx[CatCacheIds[i] + 1] = i - 1
       /\ \A j \in 1..O : ret.id2idx[CatIds[j] + 1] = C + (j - 1)
       /\ ret.cache_ratio = <<C, C + O>>

\* C5 witness: two cache rows given in decreasing order of id and one owned
\* row whose id is smaller than a cache id
C5_Witness ==
  /\ CatCalled /\ CatHasCache
  /\ Len(CatCacheIds) = 2 /\ Len(CatIds) = 1 /\ CatDisjoint
  /\ CatCacheIds[1] > CatCacheIds[2]
  /\ CatIds[1] < CatCacheIds[1]
  /\ ret.status = "ok"
  /\ ret.cache_ratio = <<2, 3>>

\* C7: when the feature partition has no cache (cache_feats or cache_ids
\* absent) cat_feature_cache returns cache ratio 0, the owned feature tensor
\* unchanged, an id-to-index map built from the owned ids alone (the j-th
\* owned id maps to j) and the very partition book object it was given,
\* unpatched.
C7_NoCacheDegenerates ==
  (CatCalled /\ ~CatHasCache) =>
    /\ ret.status = "ok"
    /\ ret.cache_ratio[1] = 0
    /\ ret.feats = call.feat_pdata.feats
    /\ \A j \in 1..Len(CatIds) : ret.id2idx[CatIds[j] + 1] = j - 1
    /\ ret.feat_pb = call.feat_pb
    /\ DOMAIN heap = {call.feat_pb}
    /\ heap[call.feat_pb] = call.book

\* C7 witness: a call on a partition with cache ids but no cache rows and two
\* owned rows given in decreasing order of id has returned
C7_Witness ==
  /\ CatCalled
  /\ IsNone(call.feat_pdata.cache_feats) /\ ~IsNone(call.feat_pdata.cache_ids)
  /\ Len(CatIds) = 2 /\ CatIds[1] > CatIds[2]
  /\ ret.status = "ok"
  /\ ret.feat_pb = call.feat_pb

\* the global ids a feature partition book covers, as tensor indices
CatBookIds == 0..(Len(call.book) - 1)
CatIsCacheId(i) == \E j \in 1..Len(CatCacheIds) : CatCacheIds[j] = i

\* C6: cat_feature_cache on a feature partition with a cache leaves the book
\* it was given as it was, and returns another book object that sends every
\* cache id to partition_idx and every other id where the given book sends it
C6_PatchIsolation ==
  (CatCalled /\ CatHasCache) =>
    /\ ret.status = "ok"
    /\ heap[call.feat_pb] = call.book
    /\ ret.feat_pb # call.feat_pb
    /\ \A i \in CatBookIds :
         heap[ret.feat_pb][i + 1] =
           IF CatIsCacheId(i) THEN call.partition_idx ELSE call.book[i + 1]

\* the same for the calls that return
C6_PatchIsolationOnReturn ==
  (CatCalled /\ CatHasCache /\ ret.status = "ok") =>
    /\ heap[call.feat_pb] = call.book
    /\ ret.feat_pb # call.feat_pb
    /\ \A i \in CatBookIds :
         heap[ret.feat_pb][i + 1] =
           IF CatIsCacheId(i) THEN call.partition_idx ELSE call.book[i + 1]

\* C19: with a cache of C >= 1 rows and O = 0 owned rows, and with a present
\* but empty cache (C = 0) and O >= 1 owned rows, cat_feature_cache returns
\* without error a feature tensor of C+O rows (cache rows first), the cache
\* ratio C/(C+O), an id-to-index map that sends every id present to its row,
\* and a book that sends the cache ids to partition_idx.
C19_EmptySidesHandled ==
  LET C == Len(CatCacheIds)
      O == Len(CatIds)
  IN (CatCalled /\ CatHasCache /\ ((C >= 1 /\ O = 0) \/ (C = 0 /\ O >= 1))) =>
       /\ ret.status = "ok"
       /\ Len(ret.feats) = C + O
       /\ ret.feats = Val(call.feat_pdata.cache_feats) \o call.feat_pdata.feats
       /\ ret.cache_ratio = <<C, C + O>>
       /\ \A i \in 1..C : ret.id2idx[CatCacheIds[i] + 1] = i - 1
       /\ \A j \in 1..O : ret.id2idx[CatIds[j] + 1] = C + (j - 1)
       /\ \A i \in CatBookIds :
            heap[ret.feat_pb][i + 1] =
              IF CatIsCacheId(i) THEN call.partition_idx ELSE call.book[i + 1]

---------------------------------------------------------------------------
(* Claims about PartitionerBase.__init__, checked under SpecCtor *)

CtorEnded == call.fn = "__init__" /\ pc.status \in {"returned", "raised"}

\* C9: a constructor call with num_parts <= 1 is rejected, and nothing has
\* been executed before the rejection: the output directory has not been
\* created.
C9_EagerNumPartsRejection ==
  (CtorEnded /\ call.num_parts <= 1) =>
    /\ pc.status = "raised"
    /\ (RootDir \in dirs) = call.dir_existed

\* what isinstance tells about the given inputs of a constructor call
CtorGiven(c) ==
  {c.num_nodes.kind, c.edge_index.kind}
    \cup ({c.node_feat.kind, c.edge_feat.kind} \ {"none"})

\* one given input is a per-type dict and another given input is not
CtorMismatch(c) ==
  /\ "dict" \in CtorGiven(c)
  /\ CtorGiven(c) # {"dict"}

\* C10: a constructor call whose num_nodes, edge_index, node_feat and
\* edge_feat do not agree in shape (one given input a per-type dict, another
\* not) is rejected.
C10_ShapeMismatchRejected ==
  (CtorEnded /\ CtorMismatch(call)) => pc.status = "raised"

---------------------------------------------------------------------------
(* Claims about partition() and load_partition, checked under Spec *)

Returned == pc.status = "returned"
IsHetero == partitioner.data_cls = "hetero"
Shards == 0..(partitioner.num_parts - 1)
RunNodeTypes == IF IsHetero THEN SeqRange(Val(partitioner.node_types)) ELSE {NoNtype}
RunEdgeTypes == IF IsHetero THEN SeqRange(Val(partitioner.edge_types)) ELSE {NoEtype}

\* what partition() computed in memory for a type
RunGraph(et) == PartitionGraph(partitioner, NodePbArg(partitioner, hooks), et)
RunNodeFeat(nt) ==
  PartitionNodeFeat(partitioner, hooks, hooks.node[nt].node_ids_list, nt).v
RunEdgeFeat(et) == PartitionEdgeFeat(partitioner, RunGraph(et).partition_results, et).v

\* the part of a load_partition result r that belongs to a type
FeatOf(feat, t) ==
  IF ~IsHetero THEN feat
  ELSE IF IsNone(feat) THEN None
  ELSE IF t \in DOMAIN Val(feat) THEN Some(Val(feat)[t]) ELSE None
GraphOf(r, et) == IF IsHetero THEN r.graph[et] ELSE r.graph
NodePbOf(r, nt) == IF IsHetero THEN r.node_pb[nt] ELSE r.node_pb
EdgePbOf(r, et) == IF IsHetero THEN r.edge_pb[et] ELSE r.edge_pb

\* the input tensors of a type
InputEdges(et) == GetEdgeIndex(partitioner, et)
InputFeat(feat, t) == IF IsHetero THEN feat.v[t] ELSE feat.v

\* the (shard, position) pairs of the rows load_partition returns for a type
GraphPlaces(et) ==
  {<<k, j>> \in Shards \X (1..MaxEdges) :
     j <= Len(Val(GraphOf(LoadPartition(Store, k), et)).eids)}
FeatPlaces(field, t, n) ==
  {<<k, j>> \in Shards \X (1..n) :
     j <= Len(Val(FeatOf(LoadPartition(Store, k)[field], t)).ids)}

\* C8: after partition() into a fresh directory, load_partition(k) returns
\* for every shard k the partition count, k, exactly the graph shard,
\* the owned and cached feature rows and ids that were computed, and the
\* full node and edge books; over all shards the loaded edges are the input
\* edge list and the loaded owned feature rows the input feature tensors,
\* each row once
C8_RoundTrip ==
  Returned =>
    /\ \A k \in Shards :
         LET r == LoadPartition(Store, k)
         IN /\ r.status = "ok"
            /\ r.num_partitions = partitioner.num_parts
            /\ r.partition_idx = k
            /\ \A nt \in RunNodeTypes :
                 /\ FeatOf(r.node_feat, nt) = RunNodeFeat(nt)[k + 1]
                 /\ NodePbOf(r, nt) = hooks.node[nt].node_pb
                 /\ Len(NodePbOf(r, nt)) = NumNodes
            /\ \A et \in RunEdgeTypes :
                 /\ GraphOf(r, et) = Some(RunGraph(et).partition_results[k + 1])
                 /\ FeatOf(r.edge_feat, et) = RunEdgeFeat(et)[k + 1]
                 /\ EdgePbOf(r, et) = RunGraph(et).partition_book
                 /\ Len(EdgePbOf(r, et)) = Len(InputEdges(et)[1])
    /\ \A et \in RunEdgeTypes :
         LET rows == InputEdges(et)[1]
             cols == InputEdges(et)[2]
             g(k) == Val(GraphOf(LoadPartition(Store, k), et))
         IN /\ Cardinality(GraphPlaces(et)) = Len(rows)
            /\ {<<g(x[1]).eids[x[2]], g(x[1]).rows[x[2]], g(x[1]).cols[x[2]]>> :
                  x \in GraphPlaces(et)}
               = {<<e - 1, rows[e], cols[e]>> : e \in 1..Len(rows)}
            /\ partitioner.edge_feat.kind # "none" =>
                 LET f(k) == Val(FeatOf(LoadPartition(Store, k).edge_feat, et))
                     places == FeatPlaces("edge_feat", et, MaxEdges)
                     edge_feat == InputFeat(partitioner.edge_feat, et)
                 IN /\ Cardinality(places) = Len(rows)
                    /\ {<<f(x[1]).ids[x[2]], f(x[1]).feats[x[2]]>> : x \in places}
                       = {<<e - 1, edge_feat[e]>> : e \in 1..Len(rows)}
    /\ \A nt \in RunNodeTypes :
         partitioner.node_feat.kind # "none" =>
           LET f(k) == Val(FeatOf(LoadPartition(Store, k).node_feat, nt))
               places == FeatPlaces("node_feat", nt, NumNodes)
               node_feat == InputFeat(partitioner.node_feat, nt)
           IN /\ Cardinality(places) = NumNodes
              /\ {<<f(x[1]).ids[x[2]], f(x[1]).feats[x[2]]>> : x \in places}
                 = {<<i - 1, node_feat[i]>> : i \in 1..NumNodes}

\* a heterogeneous graph with edges, node features with a cache and edge
\* features was partitioned and a shard of it loaded
C8_Witness ==
  /\ Returned
  /\ IsHetero
  /\ call.fn = "load_partition"
  /\ ret.status = "ok"
  /\ \A et \in RunEdgeTypes : Len(Val(ret.graph[et]).eids) >= 1
  /\ ~IsNone(ret.edge_feat)
  /\ ~IsNone(ret.node_feat)
  /\ ~IsNone(Val(ret.node_feat)["a"].cache_feats)
  /\ Len(Val(Val(ret.node_feat)["a"].cache_ids)) >= 1

---------------------------------------------------------------------------
(* Claims about the per-type getters, checked under SpecGet *)

TypedCalls ==
  {"get_edge_index", "get_node_feat", "get_edge_feat", "_partition_graph",
   "_partition_node_feat", "_partition_edge_feat"}

\* C11: on a heterogeneous graph every call of get_edge_index, get_node_feat,
\* get_edge_feat, _partition_graph, _partition_node_feat or
\* _partition_edge_feat that omits its type argument is rejected, with or
\* without node and edge features
C11_MissingTypeRejected ==
  (call.fn \in TypedCalls /\ IsHetero /\ call.omitted) => ret.status = "AssertionError"

\* the same for the calls that do consult a per-type input
C11_MissingTypeRejectedWhenConsulted ==
  (/\ call.fn \in TypedCalls /\ IsHetero /\ call.omitted
   /\ call.fn \in {"get_node_feat", "_partition_node_feat"} =>
        partitioner.node_feat.kind # "none"
   /\ call.fn \in {"get_edge_feat", "_partition_edge_feat"} =>
        partitioner.edge_feat.kind # "none")
  => ret.status = "AssertionError"

---------------------------------------------------------------------------
(* Claims about load_partition, checked under SpecLoad *)

\* a load_partition call has returned or raised
LoadCalled == call.fn = "load_partition" /\ ret.status # "running"
MetaFile == <<RootPart, "", "", "META">>
\* META exists; META holds the meta dict
MetaOpened == MetaFile \in DOMAIN fs
HasMeta == MetaOpened /\ ~IsTruncated(fs[MetaFile])
LoadIndexInRange ==
  call.partition_idx >= 0 /\ call.partition_idx < fs[MetaFile].num_parts
MetaNodeTypes ==
  IF fs[MetaFile].data_cls = "hetero" THEN SeqRange(Val(fs[MetaFile].node_types))
  ELSE {NoNtype}
MetaEdgeTypes ==
  IF fs[MetaFile].data_cls = "hetero" THEN SeqRange(Val(fs[MetaFile].edge_types))
  ELSE {NoEtype}

\* what a load_partition call returned, without the record of its reads
LoadData(r) == [f \in (DOMAIN r) \ {"reads"} |-> r[f]]

\* under SpecLoad, where nothing writes to the directory while it is loaded:
\* the accesses of load_partition one after the other end in what
\* LoadPartition gives
QuietLoadAgrees ==
  LoadCalled => LoadData(ret) = LoadPartition(Store, call.partition_idx)

\* C12: load_partition with partition_idx < 0 or >= the num_parts of META
\* fails, has read no file but META, and returns no data
C12_IndexOutOfRangeFails ==
  (LoadCalled /\ HasMeta /\ ~LoadIndexInRange) =>
    /\ ret.status = "AssertionError"
    /\ ret.reads \subseteq {MetaFile}
    /\ DOMAIN ret = {"status", "reads"}

\* both an index below 0 and the index num_parts occur over a complete
\* directory
C12_Witness ==
  /\ LoadCalled /\ HasMeta /\ pc.status = "returned"
  /\ call.partition_idx = fs[MetaFile].num_parts
  /\ ret.status = "AssertionError"
  /\ ret.reads = {MetaFile}

\* the files load_partition cannot do without for the shard it is asked for
LoadRequiredPresent ==
  LET k == call.partition_idx
  IN /\ \A nt \in MetaNodeTypes :
          /\ HasFile(Store, IF IsHetero THEN <<RootPart, "node_pb", "", NodeTypeStr(nt)>>
                            ELSE <<RootPart, "", "", "node_pb">>)
          /\ <<k, "node_feat", NodeTypeStr(nt)>> \in dirs =>
               /\ HasFile(Store, <<k, "node_feat", NodeTypeStr(nt), "feats.pt">>)
               /\ HasFile(Store, <<k, "node_feat", NodeTypeStr(nt), "ids.pt">>)
     /\ \A et \in MetaEdgeTypes :
          /\ HasFile(Store, IF IsHetero THEN <<RootPart, "edge_pb", "", EdgeTypeStr(et)>>
                            ELSE <<RootPart, "", "", "edge_pb">>)
          /\ <<k, "edge_feat", EdgeTypeStr(et)>> \in dirs =>
               /\ HasFile(Store, <<k, "edge_feat", EdgeTypeStr(et), "feats.pt">>)
               /\ HasFile(Store, <<k, "edge_feat", EdgeTypeStr(et), "ids.pt">>)
          /\ <<k, "graph", EdgeTypeStr(et)>> \in dirs =>
               \A name \in {"rows.pt", "cols.pt", "eids.pt"} :
                 HasFile(Store, <<k, "graph", EdgeTypeStr(et), name>>)

\* what C13 says of the feature partitions of one group in the result
OptionalFeatAbsent(feat, group, types, TStr(_)) ==
  LET k == call.partition_idx
  IN /\ \A t \in types :
          /\ <<k, group, TStr(t)>> \notin dirs => IsNone(FeatOf(feat, t))
          /\ <<k, group, TStr(t)>> \in dirs =>
               /\ ~IsNone(FeatOf(feat, t))
               /\ Val(FeatOf(feat, t)).feats = fs[<<k, group, TStr(t), "feats.pt">>]
               /\ Val(FeatOf(feat, t)).ids = fs[<<k, group, TStr(t), "ids.pt">>]
               /\ (\/ ~HasFile(Store, <<k, group, TStr(t), "cache_feats.pt">>)
                   \/ ~HasFile(Store, <<k, group, TStr(t), "cache_ids.pt">>))
                  => /\ IsNone(Val(FeatOf(feat, t)).cache_feats)
                     /\ IsNone(Val(FeatOf(feat, t)).cache_ids)
     /\ (\A t \in types : <<k, group, TStr(t)>> \notin dirs) => IsNone(feat)

\* C13: load_partition does not fail because optional data is absent: when
\* the shard's directory and the files it cannot do without are there, it
\* returns, with no feature partition for an absent feature directory (None
\* for the group when no type has one) and with cache_feats = cache_ids =
\* None where cache_feats.pt or cache_ids.pt is absent
C13_OptionalDataAbsent ==
  (/\ LoadCalled /\ HasMeta /\ LoadIndexInRange
   /\ <<call.partition_idx, "", "">> \in dirs
   /\ LoadRequiredPresent)
  => /\ ret.status = "ok"
     /\ OptionalFeatAbsent(ret.node_feat, "node_feat", MetaNodeTypes, NodeTypeStr)
     /\ OptionalFeatAbsent(ret.edge_feat, "edge_feat", MetaEdgeTypes, EdgeTypeStr)

\* a heterogeneous shard is loaded whose node features of type a went
\* missing and whose type b features have lost a cache file or never had one
C13_Witness ==
  /\ LoadCalled /\ HasMeta /\ pc.status = "damaged"
  /\ IsHetero
  /\ ret.status = "ok"
  /\ ~IsNone(ret.node_feat)
  /\ DOMAIN Val(ret.node_feat) = {"b"}
  /\ IsNone(Val(ret.node_feat)["b"].cache_ids)

\* C14: with META present, load_partition fails when the directory of the
\* shard asked for is absent and when the graph directory of the shard (of
\* one of META's edge types) is absent
C14_IncompleteDirectoryFails ==
  (/\ LoadCalled /\ HasMeta /\ LoadIndexInRange
   /\ \/ <<call.partition_idx, "", "">> \notin dirs
      \/ \E et \in MetaEdgeTypes :
           <<call.partition_idx, "graph", EdgeTypeStr(et)>> \notin dirs)
  => ret.status # "ok"

\* the part of C14 about the directory of the shard
C14_MissingShardDirectoryFails ==
  (/\ LoadCalled /\ HasMeta /\ LoadIndexInRange
   /\ <<call.partition_idx, "", "">> \notin dirs)
  => ret.status = "AssertionError"

---------------------------------------------------------------------------
(* Claims about the order of the writes of partition(), checked under Spec *)

\* the files a completed run leaves for a node type and for an edge type
NodeBookFile(nt) ==
  IF IsHetero THEN <<RootPart, "node_pb", "", NodeTypeStr(nt)>>
  ELSE <<RootPart, "", "", "node_pb">>
EdgeBookFile(et) ==
  IF IsHetero THEN <<RootPart, "edge_pb", "", EdgeTypeStr(et)>>
  ELSE <<RootPart, "", "", "edge_pb">>
HasFeat(feat, t) ==
  feat.kind # "none" /\ (IsHetero => t \in DOMAIN feat.v)

AllWritten ==
  /\ \A nt \in RunNodeTypes :
       /\ HasFile(Store, NodeBookFile(nt))
       /\ HasFeat(partitioner.node_feat, nt) =>
            \A k \in Shards, name \in {"feats.pt", "ids.pt"} :
              HasFile(Store, <<k, "node_feat", NodeTypeStr(nt), name>>)
  /\ \A et \in RunEdgeTypes :
       /\ HasFile(Store, EdgeBookFile(et))
       /\ \A k \in Shards, name \in {"rows.pt", "cols.pt", "eids.pt"} :
            HasFile(Store, <<k, "graph", EdgeTypeStr(et), name>>)
       /\ HasFeat(partitioner.edge_feat, et) =>
            \A k \in Shards, name \in {"feats.pt", "ids.pt"} :
              HasFile(Store, <<k, "edge_feat", EdgeTypeStr(et), name>>)

\* something of an edge type has been written
EdgeTypeStarted ==
  \E f \in DOMAIN fs : f[2] \in {"graph", "edge_feat", "edge_pb"} \/ f[4] = "edge_pb"

\* the files other than META
DataFilesOf(files) == [f \in (DOMAIN files) \ {MetaFile} |-> files[f]]

\* C15: in a run of partition() META is written once and as the last write:
\* while META does not hold the meta dict the run has not returned, a run that
\* returns has written META, when META is opened every book, graph partition
\* and feature partition of every shard and type is there, no other file or
\* directory is written from then on and nothing at all once META holds the
\* meta dict; and every node type's book is there before anything of an
\* edge type is written
C15_MetaWrittenLast ==
  /\ [](/\ Returned <=> HasMeta
        /\ MetaOpened => AllWritten
        /\ EdgeTypeStarted => \A nt \in RunNodeTypes : HasFile(Store, NodeBookFile(nt)))
  /\ [][/\ MetaOpened => (DataFilesOf(fs') = DataFilesOf(fs) /\ dirs' = dirs)
        /\ HasMeta => fs' = fs
        /\ (~HasMeta /\ HasMeta') => (pc'.status = "returned" /\ pc.status = "running")]_vars

\* for the witness: a heterogeneous run with node and edge features returned
C15_Witness ==
  /\ Returned /\ HasMeta /\ IsHetero
  /\ partitioner.node_feat.kind # "none"
  /\ partitioner.edge_feat.kind # "none"
  /\ AllWritten

---------------------------------------------------------------------------
(* Claims about per-type optional features, checked under Spec *)

\* a heterogeneous partitioner whose node_feat or edge_feat dict holds
\* features for some of the types only, every edge type having an edge
PartialFeatDicts ==
  /\ IsHetero
  /\ \/ /\ partitioner.node_feat.kind = "dict"
        /\ \E nt \in RunNodeTypes : ~HasFeat(partitioner.node_feat, nt)
     \/ /\ partitioner.edge_feat.kind = "dict"
        /\ \E et \in RunEdgeTypes : ~HasFeat(partitioner.edge_feat, et)
  /\ \A et \in RunEdgeTypes : Len(InputEdges(et)[1]) >= 1

\* the shards that hold a feature partition directory of a type
FeatShards(group, tstr) == {k \in Shards : <<k, group, tstr>> \in dirs}

\* C17: partition() on a heterogeneous graph whose node_feat (edge_feat) dict
\* holds features for only some of the types completes without error, having
\* written a feature partition on every shard for each type that has features
\* and on no shard for each type that has none.
C17_PartialFeaturesComplete ==
  (PartialFeatDicts /\ pc.status \notin {"none", "running"}) =>
    /\ Returned
    /\ \A nt \in RunNodeTypes :
         FeatShards("node_feat", NodeTypeStr(nt)) =
           IF HasFeat(partitioner.node_feat, nt) THEN Shards ELSE {}
    /\ \A et \in RunEdgeTypes :
         FeatShards("edge_feat", EdgeTypeStr(et)) =
           IF HasFeat(partitioner.edge_feat, et) THEN Shards ELSE {}

---------------------------------------------------------------------------
(* Claims about partition() over an earlier run's directory, checked under *)
(* SpecRerun and, for the directory the second run leaves, SpecTwice       *)

\* the second run had the inputs and hooks of the run that filled the directory
SameInputsRerun == pc.earlier = "same"

\* C16: when partition() has run a second time with the same inputs on the
\* same output directory, the directory holds the same directories and the
\* same files with the same contents (META, partition books, per-shard
\* topology and feature files) as after the first run, and load_partition
\* returns for every shard what it returned after the first run.
C16_SaveIdempotent ==
  (SameInputsRerun /\ Returned) =>
    /\ dirs = pc.before.dirs
    /\ DOMAIN fs = DOMAIN pc.before.fs
    /\ \A f \in DOMAIN fs : fs[f] = pc.before.fs[f]
    /\ \A k \in Shards : LoadPartition(Store, k) = LoadPartition(pc.before, k)

\* C16 witness: the second run over a heterogeneous directory with features
\* and a non-empty cache has returned and its shards load
C16_Witness ==
  /\ SameInputsRerun /\ Returned /\ IsHetero
  /\ pc.at = Len(pc.plan) /\ pc.at > 1
  /\ \E k \in Shards :
       /\ HasFile(Store, <<k, "node_feat", "a", "cache_ids.pt">>)
       /\ fs[<<k, "node_feat", "a", "cache_ids.pt">>] # <<>>
  /\ \A k \in Shards : LoadPartition(Store, k).status = "ok"

\* a step in which load_partition is called
LoadStep == call' # call \/ ret' # ret

\* the directory the run in progress leaves when nothing but its own output
\* is in it
LatestAlone == Ran(FreshStore, pc.plan, 1)

\* the result is what load_partition returns on the directory of the earlier
\* completed run, or the latest run has returned and it is what load_partition
\* returns on that run's output
FromOneCompletedRun ==
  \/ LoadData(ret) = LoadPartition(pc.before, call.partition_idx)
  \/ /\ Returned
     /\ LoadData(ret) = LoadPartition(LatestAlone, call.partition_idx)

\* C18: in every interleaving of a partition() run over the directory of an
\* earlier completed run with load_partition calls, a load_partition that
\* succeeds returns the data of one completed run: the earlier one's, or the
\* latest one's once it has written META.
C18_LoadsOneCompletedRun ==
  [][(LoadStep /\ ret'.status = "ok") => FromOneCompletedRun']_vars

\* the same for a run into a fresh directory: a load_partition that succeeds
\* is one made after the run has written META
C18_FreshDirectoryLoadsComplete ==
  [][(LoadStep /\ ret'.status = "ok") => Returned']_vars

\* the earlier run had other inputs than the run that has now ended
OtherInputsRerun == pc.earlier = "other"

\* C22: after partition() completes on a directory that held the output of an
\* earlier run with different inputs, load_partition of every valid shard
\* returns what it returns on the latest run's output alone: no cache rows or
\* ids and no node or edge feature partition that only the earlier run wrote.
C22_RerunLoadsLatestOnly ==
  (OtherInputsRerun /\ Returned) =>
    \A k \in Shards : LoadPartition(Store, k) = LoadPartition(LatestAlone, k)

---------------------------------------------------------------------------
(* Claims about DistDataset.load, checked under SpecDataset *)

\* the last DistDataset.load call completed
DatasetLoaded == call.fn = "DistDataset.load" /\ ret.status = "ok"

\* what load_partition returns for the partition that call loaded
JustLoaded == LoadPartition(RootStore(call.root_dir), call.partition_idx)
JustLoadedIsDict ==
  RootStore(call.root_dir).fs[<<RootPart, "", "", "META">>].data_cls = "hetero"

\* a book with the cache ids of a feature partition sent to partition_idx
PatchedAtCache(book, feat_pdata, partition_idx) ==
  [i \in 1..Len(book) |->
     IF /\ ~IsNone(feat_pdata.cache_ids)
        /\ \E j \in 1..Len(Val(feat_pdata.cache_ids)) :
             Val(feat_pdata.cache_ids)[j] = i - 1
     THEN partition_idx ELSE book[i]]

\* the feature book that describes the just-loaded partition: the loaded book
\* patched at the cache ids, the loaded book itself where there are no features
DescribingFeatPb(feat, pb) ==
  IF JustLoadedIsDict
  THEN [t \in DOMAIN pb |->
          IF IsNone(feat) THEN pb[t]
          ELSE IF t \in DOMAIN Val(feat)
          THEN PatchedAtCache(pb[t], Val(feat)[t], call.partition_idx)
          ELSE pb[t]]
  ELSE IF IsNone(feat) THEN pb
       ELSE PatchedAtCache(pb, Val(feat), call.partition_idx)

FeatBooksDescribeJustLoaded ==
  /\ Val(NodeFeatPb(dataset)) = DescribingFeatPb(JustLoaded.node_feat, JustLoaded.node_pb)
  /\ Val(EdgeFeatPb(dataset)) = DescribingFeatPb(JustLoaded.edge_feat, JustLoaded.edge_pb)

\* the object was constructed with the default arguments: every book it
\* holds comes from a load
DefaultConstructed == pc.status = "default"

\* C21: after any sequence of DistDataset.load calls on one object, when the
\* last one has completed, node_feat_pb and edge_feat_pb are the just-loaded
\* node_pb and edge_pb patched at that partition's cache ids, and the
\* just-loaded books themselves when the partition has no features of the
\* kind; no feature book of an earlier load is visible.
C21_FeatBooksFollowLastLoad ==
  (DefaultConstructed /\ DatasetLoaded) => FeatBooksDescribeJustLoaded

\* the same for the first load on a newly constructed object
C21_FirstLoadDescribesPartition ==
  [][(dataset = NewDataset /\ call'.fn = "DistDataset.load" /\ ret'.status = "ok")
       => FeatBooksDescribeJustLoaded']_vars

=============================================================================
